---- MODULE Spec2Model ----
(***************************************************************************)
(* State coordination core of zenbook-duo-daemon: the KeyboardStateManager *)
(* (state.rs), the broadcast event bus it publishes on, and the tasks that *)
(* call it or subscribe to it: the command dispatcher (unix_pipe.rs), the  *)
(* idle engine (idle_detection.rs), the mute-state listener                *)
(* (mute_state.rs), the suspend/resume consumer (consumers.rs), the wired  *)
(* keyboard session (keyboard_usb.rs) and the secondary display task       *)
(* (secondary_display.rs).                                                 *)
(*                                                                         *)
(* The callers in keyboard_usb.rs and secondary_display.rs name the store  *)
(* methods set_usb_attached, get_backlight, set_backlight and              *)
(* set_secondary_display_enabled; state.rs defines them as                 *)
(* set_usb_keyboard_attached, get_keyboard_backlight,                      *)
(* set_keyboard_backlight and set_secondary_display.  The calls are        *)
(* modelled by the state.rs methods.  The suspended flag and the methods   *)
(* suspend_start, suspend_end, set_suspended and the raw getters are not   *)
(* defined in state.rs; they are modelled from the specification.          *)
(***************************************************************************)
EXTENDS Integers, Sequences, FiniteSets, TLC

\* ------------------------------------------------------------------ bounds
\* Number of events the broadcast channel retains for a slow receiver.
BusCapacity == 2
\* Number of activity pulses that may wait in the idle engine's channel.
MaxPulses == 1
\* Number of wired sessions that may be alive at once.
MaxSessions == 2
\* The key presses read from a keyboard whose events have not been sent on yet.
MaxKeyEvents == 1
\* The events sent on the EventBus on behalf of key presses.
MaxSent == 2
\* The idle timeout of the configuration when idle detection is enabled, in ticks.
IdleTimeout == 2
MaxLines == 2
\* The store calls started in the model of the store's lock.
MaxCalls == 4

\* ------------------------------------------------------------------ state.rs
KeyboardBacklightState == {"Off", "Low", "Medium", "High"}

\* A plausible slip of next: the cycle saturates at High.
next_saturating(b) ==
    CASE b = "Off" -> "Low"
      [] b = "Low" -> "Medium"
      [] b = "Medium" -> "High"
      [] b = "High" -> "High"

next(b) ==
    CASE b = "Off" -> "Low"
      [] b = "Low" -> "Medium"
      [] b = "Medium" -> "High"
      [] b = "High" -> "Off"

\* ------------------------------------------------------------------ events
Backlight(b) == [type |-> "Backlight", level |-> b]
MicMuteLed(v) == [type |-> "MicMuteLed", enabled |-> v]
SecondaryDisplay(v) == [type |-> "SecondaryDisplay", enabled |-> v]
USBKeyboardAttached == [type |-> "USBKeyboardAttached"]
USBKeyboardDetached == [type |-> "USBKeyboardDetached"]

\* The result of one store call: the new InnerState and the events it sent.
Result(st, ev) == [st |-> st, ev |-> ev]

new(is_usb_attached) ==
    [backlight |-> "Low",
     mic_mute_led |-> FALSE,
     is_idle |-> FALSE,
     is_usb_attached |-> is_usb_attached,
     is_secondary_display_enabled |-> ~is_usb_attached]

\* A plausible slip of idle_start: it stores the shadow values.
idle_start_overwriting(s) ==
    Result([s EXCEPT !.is_idle = TRUE, !.mic_mute_led = FALSE, !.backlight = "Off"],
           <<MicMuteLed(FALSE), Backlight("Off")>>)

idle_start(s) ==
    Result([s EXCEPT !.is_idle = TRUE],
           <<MicMuteLed(FALSE), Backlight("Off")>>)

idle_end(s) ==
    Result([s EXCEPT !.is_idle = FALSE],
           <<MicMuteLed(s.mic_mute_led), Backlight(s.backlight)>>)

set_mic_mute_led(s, enabled) ==
    LET t == [s EXCEPT !.mic_mute_led = enabled]
    IN  Result(t, IF ~t.is_idle THEN <<MicMuteLed(enabled)>> ELSE <<>>)

toggle_mic_mute_led(s) ==
    LET t == [s EXCEPT !.mic_mute_led = ~s.mic_mute_led]
    IN  Result(t, IF ~t.is_idle THEN <<MicMuteLed(t.mic_mute_led)>> ELSE <<>>)

get_mic_mute_led(s) == s.mic_mute_led

\* A plausible slip of set_keyboard_backlight: the idle check is missing.
set_keyboard_backlight_unguarded(s, new_state) ==
    Result([s EXCEPT !.backlight = new_state], <<Backlight(new_state)>>)

set_keyboard_backlight(s, new_state) ==
    LET t == [s EXCEPT !.backlight = new_state]
    IN  Result(t, IF ~t.is_idle THEN <<Backlight(new_state)>> ELSE <<>>)

toggle_keyboard_backlight(s) ==
    LET t == [s EXCEPT !.backlight = next(s.backlight)]
    IN  Result(t, IF ~t.is_idle THEN <<Backlight(t.backlight)>> ELSE <<>>)

get_keyboard_backlight(s) == s.backlight

\* A plausible slip of set_secondary_display: an event only on a change.
set_secondary_display_on_change(s, enabled) ==
    LET t == [s EXCEPT !.is_secondary_display_enabled =
                           IF s.is_usb_attached THEN FALSE ELSE enabled]
    IN  Result(t, IF t.is_secondary_display_enabled # s.is_secondary_display_enabled
                  THEN <<SecondaryDisplay(t.is_secondary_display_enabled)>>
                  ELSE <<>>)

set_secondary_display(s, enabled) ==
    LET t1 == [s EXCEPT !.is_secondary_display_enabled = enabled]
        t  == IF t1.is_usb_attached
              THEN [t1 EXCEPT !.is_secondary_display_enabled = FALSE]
              ELSE t1
    IN  Result(t, <<SecondaryDisplay(t.is_secondary_display_enabled)>>)

\* A plausible slip of toggle_secondary_display: the attached check is missing.
toggle_secondary_display_unforced(s) ==
    LET t == [s EXCEPT !.is_secondary_display_enabled = ~s.is_secondary_display_enabled]
    IN  Result(t, <<SecondaryDisplay(t.is_secondary_display_enabled)>>)

toggle_secondary_display(s) ==
    LET t1 == [s EXCEPT !.is_secondary_display_enabled = ~s.is_secondary_display_enabled]
        t  == IF t1.is_usb_attached
              THEN [t1 EXCEPT !.is_secondary_display_enabled = FALSE]
              ELSE t1
    IN  Result(t, <<SecondaryDisplay(t.is_secondary_display_enabled)>>)

\* A plausible slip of set_usb_keyboard_attached: a detach leaves the display as
\* the store has it.
set_usb_keyboard_attached_kept(s, attached) ==
    LET t == [s EXCEPT !.is_usb_attached = attached,
                       !.is_secondary_display_enabled =
                           IF attached THEN FALSE ELSE s.is_secondary_display_enabled]
    IN  Result(t, <<SecondaryDisplay(t.is_secondary_display_enabled)>>)

set_usb_keyboard_attached(s, attached) ==
    LET t == [s EXCEPT !.is_usb_attached = attached,
                       !.is_secondary_display_enabled = ~attached]
    IN  Result(t, <<SecondaryDisplay(t.is_secondary_display_enabled)>>)

is_secondary_display_enabled(s) == s.is_secondary_display_enabled

is_idle(s) == s.is_idle

\* ------------------------------------------------ store parts not in state.rs
\* suspend_start / suspend_end are called by unix_pipe.rs, set_suspended and the
\* raw getters by consumers.rs.
set_suspended(v) == v

get_backlight_raw(s) == s.backlight

get_mic_mute_led_raw(s) == s.mic_mute_led

suspend_start(s) == Result(s, <<MicMuteLed(FALSE), Backlight("Off")>>)

suspend_end(s) ==
    Result(s, IF s.is_idle
              THEN <<MicMuteLed(FALSE), Backlight("Off")>>
              ELSE <<MicMuteLed(s.mic_mute_led), Backlight(s.backlight)>>)

\* ------------------------------------------------------------------ event bus
\* tokio::sync::broadcast as used by KeyboardStateManager::sender: every receiver
\* sees every event sent after it subscribed, in order; a receiver more than
\* BusCapacity events behind loses the oldest ones and its next recv is Lagged.
Sessions == 1..MaxSessions

\* The receiver of wired session i, and the display task's receiver.
UsbRx(i) == <<"usb", i>>
DisplayRx == <<"display", 0>>

\* The receiver of the Bluetooth session's control task.
BtRx == <<"bt", 0>>

Subscribers == {UsbRx(i) : i \in Sessions} \cup {DisplayRx, BtRx}

MaxUnread(unread) ==
    CHOOSE n \in 0..BusCapacity :
        /\ \A s \in Subscribers : unread[s] <= n
        /\ \E s \in Subscribers : unread[s] = n \/ n = 0

\* The events some receiver has still to read (everything older is dropped).
Retain(log, unread) ==
    SubSeq(log, Len(log) - MaxUnread(unread) + 1, Len(log))

send(b, e) ==
    LET unread2 == [s \in Subscribers |->
                      IF s \in b.rx
                      THEN (IF b.unread[s] < BusCapacity
                            THEN b.unread[s] + 1 ELSE BusCapacity)
                      ELSE 0]
        lagged2 == [s \in Subscribers |->
                      IF s \in b.rx /\ b.unread[s] = BusCapacity
                      THEN TRUE ELSE b.lagged[s]]
    IN  [b EXCEPT !.log = Retain(Append(b.log, e), unread2),
                  !.unread = unread2,
                  !.lagged = lagged2]

RECURSIVE send_all(_, _)
send_all(b, evs) ==
    IF evs = <<>> THEN b ELSE send_all(send(b, Head(evs)), Tail(evs))

subscribe(b, s) ==
    [b EXCEPT !.rx = b.rx \cup {s}, !.unread[s] = 0, !.lagged[s] = FALSE]

\* The receiver is dropped.
unsubscribe(b, s) ==
    LET unread2 == [b.unread EXCEPT ![s] = 0]
    IN  [b EXCEPT !.rx = b.rx \ {s}, !.unread = unread2, !.lagged[s] = FALSE,
                  !.log = Retain(b.log, unread2)]

\* recv() has something to return (an event or Lagged) without waiting.
can_recv(b, s) == s \in b.rx /\ (b.lagged[s] \/ b.unread[s] > 0)

\* What recv() returns: "Lagged", or the oldest unread event.
recv(b, s) ==
    IF b.lagged[s] THEN [type |-> "Lagged"]
    ELSE b.log[Len(b.log) - b.unread[s] + 1]

\* The bus after recv() returned.
after_recv(b, s) ==
    IF b.lagged[s] THEN [b EXCEPT !.lagged[s] = FALSE]
    ELSE LET unread2 == [b.unread EXCEPT ![s] = b.unread[s] - 1]
         IN  [b EXCEPT !.unread = unread2, !.log = Retain(b.log, unread2)]

\* ------------------------------------------------------------------ events.rs
\* The receivers cloned from the EventBus: one per wired keyboard thread, and the
\* suspend/resume consumer's.
WiredRx(i) == <<"wired", i>>
ConsumerRx == <<"consumer", 0>>

Receivers == {WiredRx(i) : i \in Sessions} \cup {ConsumerRx}

BacklightToggle == [type |-> "BacklightToggle"]
MicMuteLedToggle == [type |-> "MicMuteLedToggle"]
SecondaryDisplayToggle == [type |-> "SecondaryDisplayToggle"]

\* ------------------------------------------------------------ virtual_keyboard.rs
\* The keys of the default key bindings.
EmojiPickerKeys == <<"KEY_LEFTCTRL", "KEY_DOT">>

\* The event that ends a report written to the uinput device.
SynReport == [code |-> "SYN_REPORT", value |-> "Sync"]

\* One InputEvent per key of a Vec<EV_KEY>, with the given KeyEventType.
KeyEvents(keys, value) ==
    [k \in 1..Len(keys) |-> [code |-> keys[k], value |-> value]]

\* A plausible slip of release_all_keys: the held keys are not cleared.
release_all_keys_not_cleared(pressed) ==
    pressed

\* VirtualKeyboard::release_all_keys: pressed_keys after the call.
release_all_keys(pressed) ==
    IF pressed # <<>> THEN <<>> ELSE pressed

\* VirtualKeyboard::release_all_keys: the events it writes to the device.
release_all_keys_events(pressed) ==
    IF pressed # <<>>
    THEN KeyEvents(pressed, "Release") \o <<SynReport>>
    ELSE <<>>

\* VirtualKeyboard::release_prev_and_press_keys: pressed_keys after the call.
release_prev_and_press_keys(pressed, keys) ==
    release_all_keys(pressed) \o keys

\* VirtualKeyboard::release_prev_and_press_keys: the events it writes.
release_prev_and_press_keys_events(pressed, keys) ==
    release_all_keys_events(pressed) \o KeyEvents(keys, "Press") \o <<SynReport>>

\* ------------------------------------------------------------------- config.rs
\* enum KeyFunction.
KeyboardBacklight(on) == [kind |-> "KeyboardBacklight", on |-> on, keys |-> <<>>]
ToggleSecondaryDisplay(on) ==
    [kind |-> "ToggleSecondaryDisplay", on |-> on, keys |-> <<>>]
KeyBind(keys) == [kind |-> "KeyBind", on |-> FALSE, keys |-> keys]
NoOp(on) == [kind |-> "NoOp", on |-> on, keys |-> <<>>]

\* impl Default for Config: the key functions.
DefaultConfig ==
    [keyboard_backlight_key |-> KeyboardBacklight(TRUE),
     brightness_down_key |-> KeyBind(<<"KEY_BRIGHTNESSDOWN">>),
     brightness_up_key |-> KeyBind(<<"KEY_BRIGHTNESSUP">>),
     swap_up_down_display_key |-> NoOp(TRUE),
     microphone_mute_key |-> KeyBind(<<"KEY_MICMUTE">>),
     emoji_picker_key |-> KeyBind(EmojiPickerKeys),
     myasus_key |-> NoOp(TRUE),
     toggle_secondary_display_key |-> ToggleSecondaryDisplay(TRUE)]

\* A configuration file that binds the backlight key to a key press instead.
ReboundConfig ==
    [DefaultConfig EXCEPT !.keyboard_backlight_key = KeyBind(<<"KEY_KBDILLUMTOGGLE">>)]

\* What a read task's handling of one raw value does: the store it leaves, the
\* events it publishes, pressed_keys after it and the events written to uinput.
KeyOutcome(st, ev, keys, out) == [st |-> st, ev |-> ev, keys |-> keys, out |-> out]

\* A plausible slip of execute: only key bindings are acted on.
execute_key_bind_only(key_function, s, pressed) ==
    IF key_function.kind = "KeyBind"
    THEN KeyOutcome(s, <<>>,
                    release_prev_and_press_keys(pressed, key_function.keys),
                    release_prev_and_press_keys_events(pressed, key_function.keys))
    ELSE KeyOutcome(s, <<>>, pressed, <<>>)

\* KeyFunction::execute(&self, virtual_keyboard, state_manager).
execute(key_function, s, pressed) ==
    CASE key_function.kind = "KeyBind" ->
             KeyOutcome(s, <<>>,
                        release_prev_and_press_keys(pressed, key_function.keys),
                        release_prev_and_press_keys_events(pressed, key_function.keys))
      [] key_function.kind = "KeyboardBacklight" /\ key_function.on ->
             LET r == toggle_keyboard_backlight(s)
             IN  KeyOutcome(r.st, r.ev, pressed, <<>>)
      [] key_function.kind = "ToggleSecondaryDisplay" /\ key_function.on ->
             LET r == toggle_secondary_display(s)
             IN  KeyOutcome(r.st, r.ev, pressed, <<>>)
      [] OTHER ->
             \* do nothing
             KeyOutcome(s, <<>>, pressed, <<>>)

\* The key function executed with the event sender instead of the store: the
\* toggles are sent as events.
execute_key_function(key_function, s, pressed) ==
    CASE key_function.kind = "KeyBind" ->
             KeyOutcome(s, <<>>,
                        release_prev_and_press_keys(pressed, key_function.keys),
                        release_prev_and_press_keys_events(pressed, key_function.keys))
      [] key_function.kind = "KeyboardBacklight" /\ key_function.on ->
             KeyOutcome(s, <<BacklightToggle>>, pressed, <<>>)
      [] key_function.kind = "ToggleSecondaryDisplay" /\ key_function.on ->
             KeyOutcome(s, <<SecondaryDisplayToggle>>, pressed, <<>>)
      [] OTHER ->
             \* do nothing
             KeyOutcome(s, <<>>, pressed, <<>>)

\* The raw function-key values: neutral, the eight keys, and two values that are
\* no key's.
Neutral == 0
Unrecognized == {1, 255}
RawValues == {Neutral, 199, 16, 32, 156, 124, 126, 134, 106} \cup Unrecognized

\* The key function the configuration gives the key with this raw value.
key_function_of(cfg, value) ==
    CASE value = 199 -> cfg.keyboard_backlight_key
      [] value = 16 -> cfg.brightness_down_key
      [] value = 32 -> cfg.brightness_up_key
      [] value = 156 -> cfg.swap_up_down_display_key
      [] value = 124 -> cfg.microphone_mute_key
      [] value = 126 -> cfg.emoji_picker_key
      [] value = 134 -> cfg.myasus_key
      [] value = 106 -> cfg.toggle_secondary_display_key

\* A plausible slip of the translation: an unrecognized value is ignored.
on_unrecognized_ignored(s, pressed) ==
    KeyOutcome(s, <<>>, pressed, <<>>)

\* The `_` arm of a read task's match: release_all_keys.
on_unrecognized(s, pressed) ==
    KeyOutcome(s, <<>>, release_all_keys(pressed), release_all_keys_events(pressed))

\* keyboard_bt.rs, the read task's handling of one EV_ABS(ABS_MISC) value.
bt_on_abs_misc(value, cfg, s, pressed) ==
    IF value = Neutral
    THEN KeyOutcome(s, <<>>, release_all_keys(pressed),
                    release_all_keys_events(pressed))
    ELSE IF value \in {199, 16, 32, 156, 124, 126, 134, 106}
         THEN execute(key_function_of(cfg, value), s, pressed)
         ELSE on_unrecognized(s, pressed)

\* keyboard_usb.rs, the read loop's handling of one report [90, value, 0, 0, 0, 0].
usb_on_report(value, cfg, s, pressed) ==
    IF value = Neutral
    THEN KeyOutcome(s, <<>>, release_all_keys(pressed),
                    release_all_keys_events(pressed))
    ELSE IF value \in {199, 16, 32, 156, 124, 126, 134, 106}
         THEN execute_key_function(key_function_of(cfg, value), s, pressed)
         ELSE on_unrecognized(s, pressed)

\* ------------------------------------------------------------------ hardware
\* keyboard_usb.rs: the control-transfer payloads (their distinguishing bytes).
send_backlight_state(level) ==
    CASE level = "Off" -> "5abac5c400"
      [] level = "Low" -> "5abac5c401"
      [] level = "Medium" -> "5abac5c402"
      [] level = "High" -> "5abac5c403"

send_mute_microphone_state(enabled) ==
    IF enabled THEN "5ad07c01" ELSE "5ad07c00"

\* The outcomes of keyboard.control_out(.., Duration::from_millis(100)).
WriteResults == {"Ok", "Err"}

\* The payload the keyboard holds after a control transfer of data that ended
\* with the given result.
control_out(current, data, result) ==
    IF result = "Ok" THEN data ELSE current

\* keyboard_usb.rs, send_backlight_state and send_mute_microphone_state on the
\* result of the transfer: if let Err(e) = .. { warn!(..) }, and return.
usb_on_control_out(result) ==
    "continue"

\* wired_keyboard_thread.rs, send_backlight_state and send_mute_microphone_state
\* on the result of the transfer: .wait().unwrap().
wired_on_control_out(result) ==
    IF result = "Err" THEN "panic" ELSE "continue"

\* secondary_display.rs: the panel-status file.
control_secondary_display(enable) == IF enable THEN "on" ELSE "off"

is_secondary_display_enabled_actual(status) ==
    status = "on" \/ status = "connected"

\* ------------------------------------------------------------------ variables
VARIABLES
    state,           \* InnerState of the KeyboardStateManager
    is_suspended,    \* the store's suspended flag
    bus,             \* the broadcast channel: [log, rx, unread, lagged]
    usb_pc,          \* per wired session: position of its start task / read loop
    usb_ctl,         \* per wired session: its control task, "none" or "running"
    shutdown,        \* per wired session: its oneshot sender has been dropped
    kb_backlight,    \* per wired session: last backlight payload written to its handle
    kb_mic,          \* per wired session: last mic-mute payload written to its handle
    usb_lagged,      \* history, per wired session: its control task has seen Lagged
    chan,            \* the EventBus of events.rs: the events in its channel
    sent,            \* history: the number of events sent on the EventBus so far
    taken,           \* history, per receiver of the EventBus: the events it received,
                     \* by their number in the order of sending
    sub_at,          \* history, per receiver: the value of sent when it was cloned
    key_chan,        \* the KeyPressEventBus: the key press events in its channel
    pressed_keys,    \* VirtualKeyboard.pressed_keys
    disp_pc,         \* position of start_secondary_display_task
    panel_status,    \* content of the panel-status file
    engine_is_idle,  \* idle_state_task's local is_idle
    pulses,          \* activity pulses waiting in the idle engine's channel
    idle_timeout_seconds, \* config.idle_timeout_seconds
    elapsed,         \* last_activity.elapsed() of idle_state_task, in ticks
    slept,           \* ticks since idle_state_task entered its select
    time_until_idle, \* idle_state_task's local time_until_idle
    op,              \* history: the store call / task step made by the last step
    pub,             \* history: the events sent on the bus by the last step
    att_enabled,     \* history: the display was enabled when the keyboard attached
    bt,              \* the Bluetooth session: its read task, control task and oneshot
    pipe,            \* the command FIFO and the dispatcher's position on it
    ctl_new_state,   \* per wired session: the control task's local new_state
    config,          \* the Config the daemon was started with: its key functions
    lock             \* the store's RwLock: who waits for it and who holds it

vars == <<state, is_suspended, bus, usb_pc, usb_ctl, shutdown, kb_backlight, kb_mic,
          usb_lagged, chan, sent, taken, sub_at, key_chan, pressed_keys, disp_pc, panel_status, engine_is_idle, pulses,
          idle_timeout_seconds, elapsed, slept, time_until_idle, op, pub, att_enabled,
          bt, pipe, ctl_new_state, config, lock>>

rest_vars == <<config, lock>>
ext_vars == <<bt, pipe, ctl_new_state, rest_vars>>
chan_vars == <<chan, sent, taken, sub_at, key_chan>>
thread_vars == <<chan_vars, pressed_keys>>
usb_vars == <<usb_pc, usb_ctl, shutdown, kb_backlight, kb_mic, usb_lagged, thread_vars>>
disp_vars == <<disp_pc, panel_status>>
clock_vars == <<idle_timeout_seconds, elapsed, slept, time_until_idle>>
idle_vars == <<engine_is_idle, pulses, clock_vars>>

\* The control task is not between the read and the write of a toggle.
NoNewState == [kind |-> "none", level |-> "Off", enabled |-> FALSE]

\* The tasks that call the store: the idle engine, the dispatcher, a wired
\* session's start and its control task, which calls back on the events it
\* receives.
LockCallers == {"idle_engine", "dispatcher", "usb_session", "usb_control"}

\* A call of a store method with its arguments.
StoreCall(name, level, enabled) ==
    [name |-> name, level |-> level, enabled |-> enabled]

NoCall == StoreCall("-", "Off", FALSE)

\* The receivers that observe the store's events: the control task's and the
\* display task's.
LockSubscribers == {UsbRx(1), DisplayRx}

\* History: the number of the mutation that sent an event and the event's place
\* among that mutation's events; NoTag before anything was received.
NoTag == <<0, 0>>

\* Duration::saturating_sub.
saturating_sub(a, b) == IF a > b THEN a - b ELSE 0

\* Duration::from_secs, a tick being a second.
from_secs(secs) == secs

\* A plausible slip of the remaining-time computation: the operands swapped.
remaining_until_idle_swapped(idle_timeout, el) ==
    saturating_sub(el, idle_timeout)

\* idle_state_task: idle_timeout.saturating_sub(last_activity.elapsed()).
remaining_until_idle(idle_timeout, el) ==
    saturating_sub(idle_timeout, el)

\* The state after construction, for the given values of idle_timeout_seconds
\* and the given configurations of the keys.
InitFrom(timeouts, configs) ==
    /\ config \in configs
    /\ \E attached \in BOOLEAN : state = new(attached)
    /\ idle_timeout_seconds \in timeouts
    /\ elapsed = 0
    /\ slept = 0
    /\ time_until_idle = remaining_until_idle(from_secs(idle_timeout_seconds), 0)
    /\ is_suspended = FALSE
    /\ bus = [log |-> <<>>, rx |-> {},
              unread |-> [s \in Subscribers |-> 0],
              lagged |-> [s \in Subscribers |-> FALSE]]
    /\ usb_pc = [i \in Sessions |-> "absent"]
    /\ usb_ctl = [i \in Sessions |-> "none"]
    /\ shutdown = [i \in Sessions |-> FALSE]
    /\ kb_backlight = [i \in Sessions |-> "none"]
    /\ kb_mic = [i \in Sessions |-> "none"]
    /\ usb_lagged = [i \in Sessions |-> FALSE]
    /\ chan = <<>>
    /\ sent = 0
    /\ taken = [r \in Receivers |-> <<>>]
    /\ sub_at = [r \in Receivers |-> 0]
    /\ key_chan = <<>>
    /\ pressed_keys = <<>>
    /\ disp_pc = "init"
    /\ panel_status \in {"connected", "disconnected"}
    /\ engine_is_idle = FALSE
    /\ pulses = 0
    /\ op = [name |-> "new", by |-> "main"]
    /\ pub = <<>>
    /\ att_enabled = FALSE
    /\ bt = [pc |-> "absent", ctl |-> "none", shutdown |-> FALSE, raws |-> <<>>]
    /\ pipe = [pc |-> "opening", lines |-> <<>>, writer |-> FALSE,
               last |-> "-", before |-> "-"]
    /\ ctl_new_state = [i \in Sessions |-> NoNewState]
    /\ lock = [pc |-> [c \in LockCallers |-> "idle"],
               call |-> [c \in LockCallers |-> NoCall],
               pending |-> [c \in LockCallers |-> <<>>],
               started |-> 0, applied |-> 0,
               got |-> [s \in LockSubscribers |-> <<NoTag, NoTag>>]]

\* The state after construction with the default key functions.
InitWith(timeouts) ==
    InitFrom(timeouts, {DefaultConfig})

\* The daemon started with idle detection enabled.
Init == InitWith({IdleTimeout})

\* The daemon started with the default key functions or with the backlight key
\* bound to a key press.
InitKeys ==
    InitFrom({IdleTimeout}, {DefaultConfig, ReboundConfig})

\* The daemon started with idle detection enabled or disabled.
InitIdle == InitWith({0, IdleTimeout})

\* A plausible slip of the store's sends: the result is unwrapped, so that a
\* send with no receiver ends the call before it returns.
Call_send_unwrapped(r, o) ==
    /\ (r.ev = <<>> \/ bus.rx # {})
    /\ state' = r.st
    /\ pub' = r.ev
    /\ bus' = send_all(bus, r.ev)
    /\ op' = o

\* One step that calls the store: the state it leaves, the events it sent, and
\* (history) what the step was.
Call(r, o) ==
    /\ state' = r.st
    /\ pub' = r.ev
    /\ bus' = send_all(bus, r.ev)
    /\ op' = o

\* ------------------------------------------------------------- idle_detection.rs
\* A plausible slip of the start: the tasks are spawned whatever the timeout.
start_idle_detection_task_always(timeout_seconds) ==
    TRUE

\* start_idle_detection_task: whether idle_state_task and device_monitor_task
\* are spawned; when they are not, activity_rx is dropped on return.
start_idle_detection_task(timeout_seconds) ==
    timeout_seconds # 0

\* A plausible slip of notify: nothing is sent.
notify_dropped(p, spawned) ==
    p

\* ActivityNotifier::notify: let _ = self.tx.send(()); the send fails, and the
\* failure is ignored, when the receiver has been dropped.
notify(p, spawned) ==
    IF spawned THEN p + 1 ELSE p

\* ------------------------------------------------------------- unix_pipe.rs
Commands ==
    {"suspend_start", "suspend_end",
     "mic_mute_led_toggle", "mic_mute_led_on", "mic_mute_led_off",
     "backlight_toggle", "backlight_off", "backlight_low", "backlight_medium",
     "backlight_high",
     "secondary_display_toggle", "secondary_display_on", "secondary_display_off"}

\* A line that is no command of the vocabulary.
UnknownLine == "bogus"

\* A plausible slip of the match: the line is matched with its newline, so that
\* no arm but the last is ever taken.
dispatch_untrimmed(line) ==
        /\ UNCHANGED <<rest_vars, bt, ctl_new_state, usb_vars, disp_vars, engine_is_idle, clock_vars, att_enabled>>
        /\ Call(Result(state, <<>>),
                [name |-> "unknown_command", by |-> "dispatcher", line |-> line])
        /\ UNCHANGED <<is_suspended, pulses>>

\* start_receive_commands_task: the match on one received line.
dispatch(line) ==
        /\ UNCHANGED <<rest_vars, bt, ctl_new_state, usb_vars, disp_vars, engine_is_idle, clock_vars, att_enabled>>
        /\ CASE line = "suspend_start" ->
                  /\ Call(suspend_start(state),
                          [name |-> "suspend_start", by |-> "dispatcher", line |-> line])
                  /\ is_suspended' = TRUE
                  /\ UNCHANGED pulses
             [] line = "suspend_end" ->
                  \* state_manager.suspend_end(); activity_notifier.notify()
                  /\ pulses < MaxPulses
                  /\ Call(suspend_end(state),
                          [name |-> "suspend_end", by |-> "dispatcher", line |-> line])
                  /\ is_suspended' = FALSE
                  /\ pulses' = notify(pulses, start_idle_detection_task(idle_timeout_seconds))
             [] line = "mic_mute_led_toggle" ->
                  /\ Call(toggle_mic_mute_led(state),
                          [name |-> "toggle_mic_mute_led", by |-> "dispatcher", line |-> line])
                  /\ UNCHANGED <<is_suspended, pulses>>
             [] line = "mic_mute_led_on" ->
                  /\ Call(set_mic_mute_led(state, TRUE),
                          [name |-> "set_mic_mute_led", by |-> "dispatcher", line |-> line, enabled |-> TRUE])
                  /\ UNCHANGED <<is_suspended, pulses>>
             [] line = "mic_mute_led_off" ->
                  /\ Call(set_mic_mute_led(state, FALSE),
                          [name |-> "set_mic_mute_led", by |-> "dispatcher", line |-> line, enabled |-> FALSE])
                  /\ UNCHANGED <<is_suspended, pulses>>
             [] line = "backlight_toggle" ->
                  /\ Call(toggle_keyboard_backlight(state),
                          [name |-> "toggle_keyboard_backlight", by |-> "dispatcher", line |-> line])
                  /\ UNCHANGED <<is_suspended, pulses>>
             [] line = "backlight_off" ->
                  /\ Call(set_keyboard_backlight(state, "Off"),
                          [name |-> "set_keyboard_backlight", by |-> "dispatcher", line |-> line, level |-> "Off"])
                  /\ UNCHANGED <<is_suspended, pulses>>
             [] line = "backlight_low" ->
                  /\ Call(set_keyboard_backlight(state, "Low"),
                          [name |-> "set_keyboard_backlight", by |-> "dispatcher", line |-> line, level |-> "Low"])
                  /\ UNCHANGED <<is_suspended, pulses>>
             [] line = "backlight_medium" ->
                  /\ Call(set_keyboard_backlight(state, "Medium"),
                          [name |-> "set_keyboard_backlight", by |-> "dispatcher", line |-> line, level |-> "Medium"])
                  /\ UNCHANGED <<is_suspended, pulses>>
             [] line = "backlight_high" ->
                  /\ Call(set_keyboard_backlight(state, "High"),
                          [name |-> "set_keyboard_backlight", by |-> "dispatcher", line |-> line, level |-> "High"])
                  /\ UNCHANGED <<is_suspended, pulses>>
             [] line = "secondary_display_toggle" ->
                  /\ Call(toggle_secondary_display(state),
                          [name |-> "toggle_secondary_display", by |-> "dispatcher", line |-> line])
                  /\ UNCHANGED <<is_suspended, pulses>>
             [] line = "secondary_display_on" ->
                  /\ Call(set_secondary_display(state, TRUE),
                          [name |-> "set_secondary_display", by |-> "dispatcher", line |-> line, enabled |-> TRUE])
                  /\ UNCHANGED <<is_suspended, pulses>>
             [] line = "secondary_display_off" ->
                  /\ Call(set_secondary_display(state, FALSE),
                          [name |-> "set_secondary_display", by |-> "dispatcher", line |-> line, enabled |-> FALSE])
                  /\ UNCHANGED <<is_suspended, pulses>>
             [] OTHER ->
                  \* warn!("Unknown pipe command")
                  /\ Call(Result(state, <<>>),
                          [name |-> "unknown_command", by |-> "dispatcher", line |-> line])
                  /\ UNCHANGED <<is_suspended, pulses>>

\* start_receive_commands_task: one line received and dispatched.
start_receive_commands_task ==
    \E line \in Commands \cup {UnknownLine} : (dispatch(line) /\ UNCHANGED pipe)

\* The same task when the operator sends only display commands.
receive_display_commands ==
    \E line \in {"secondary_display_toggle", "secondary_display_on",
                 "secondary_display_off"} : (dispatch(line) /\ UNCHANGED pipe)

\* The same with the last two commands remembered (history).
receive_display_commands_noted ==
    \E line \in {"secondary_display_on", "secondary_display_off"} :
        /\ dispatch(line)
        /\ pipe' = [pipe EXCEPT !.before = pipe.last, !.last = line]

\* The same task when the operator sends only toggle commands.
receive_toggle_commands ==
    \E line \in {"backlight_toggle", "mic_mute_led_toggle"} : (dispatch(line) /\ UNCHANGED pipe)

\* The FIFO of UnixPipe and the dispatcher's position on it: "opening" inside
\* File::open, which returns when a writer opens the FIFO; "reading" inside
\* read_line; "reopen" after Ok(0), before reopen's File::open; "recreate" after
\* receive_next_command returned None, before UnixPipe::new.
\* A line that is not valid UTF-8: read_line returns Err.
Garbage == "<invalid utf-8>"

\* The lines the writers write.
PipeLines == {"backlight_toggle", "mic_mute_led_on", UnknownLine, Garbage}

\* History: the last line dispatched and the one before it.
Dispatched(pp, line) == [pp EXCEPT !.before = pp.last, !.last = line]

\* A plausible slip of the loop: an unknown command ends it.
after_command_fatal(line) ==
    IF line \in Commands THEN "reading" ELSE "exited"

\* start_receive_commands_task: where the loop goes after the match on a line.
after_command(line) ==
    "reading"

\* A plausible slip of receive_next_command: end-of-file ends the task.
after_read_exit_on_eof(result) ==
    CASE result = "eof" -> "exited"
      [] result = "err" -> "recreate"

\* receive_next_command: Ok(0) re-opens and reads again, Err returns None, on
\* which start_receive_commands_task recreates the pipe.
after_read(result) ==
    CASE result = "eof" -> "reopen"
      [] result = "err" -> "recreate"

\* A process opens the FIFO for writing; a File::open of the dispatcher that
\* waits for a writer returns.
writer_open ==
    /\ ~pipe.writer
    /\ pipe' = [pipe EXCEPT !.writer = TRUE,
                            !.pc = IF pipe.pc = "opening" THEN "reading" ELSE @]
    /\ Call(Result(state, <<>>), [name |-> "open", by |-> "writer"])
    /\ UNCHANGED <<rest_vars, bt, ctl_new_state, is_suspended, usb_vars, disp_vars,
                   idle_vars, att_enabled>>

\* The writer writes one line.
writer_write ==
    \E line \in PipeLines :
        /\ pipe.writer
        /\ Len(pipe.lines) < MaxLines
        /\ pipe' = [pipe EXCEPT !.lines = Append(@, line)]
        /\ Call(Result(state, <<>>), [name |-> "write", by |-> "writer", line |-> line])
        /\ UNCHANGED <<rest_vars, bt, ctl_new_state, is_suspended, usb_vars, disp_vars,
                       idle_vars, att_enabled>>

\* The writer closes the FIFO.
writer_close ==
    /\ pipe.writer
    /\ pipe' = [pipe EXCEPT !.writer = FALSE]
    /\ Call(Result(state, <<>>), [name |-> "close", by |-> "writer"])
    /\ UNCHANGED <<rest_vars, bt, ctl_new_state, is_suspended, usb_vars, disp_vars,
                   idle_vars, att_enabled>>

\* receive_next_command, read_line returns Ok(_): the line is matched.
receive_next_command_line ==
    /\ pipe.pc = "reading"
    /\ pipe.lines # <<>>
    /\ Head(pipe.lines) # Garbage
    /\ dispatch(Head(pipe.lines))
    /\ pipe' = [Dispatched(pipe, Head(pipe.lines)) EXCEPT
                    !.lines = Tail(pipe.lines),
                    !.pc = after_command(Head(pipe.lines))]

\* receive_next_command, read_line returns Ok(0): no line is buffered and no
\* writer has the FIFO open.
receive_next_command_eof ==
    /\ pipe.pc = "reading"
    /\ pipe.lines = <<>>
    /\ ~pipe.writer
    /\ pipe' = [pipe EXCEPT !.pc = after_read("eof")]
    /\ Call(Result(state, <<>>), [name |-> "eof", by |-> "pipe"])
    /\ UNCHANGED <<rest_vars, bt, ctl_new_state, is_suspended, usb_vars, disp_vars,
                   idle_vars, att_enabled>>

\* receive_next_command, read_line returns Err: None is returned.
receive_next_command_err ==
    /\ pipe.pc = "reading"
    /\ pipe.lines # <<>>
    /\ Head(pipe.lines) = Garbage
    /\ pipe' = [pipe EXCEPT !.pc = after_read("err")]
    /\ Call(Result(state, <<>>), [name |-> "err", by |-> "pipe"])
    /\ UNCHANGED <<rest_vars, bt, ctl_new_state, is_suspended, usb_vars, disp_vars,
                   idle_vars, att_enabled>>

\* UnixPipe::reopen: File::open(&self.path) returns at once when a writer has
\* the FIFO open, and otherwise waits until a writer opens it.
reopen ==
    /\ pipe.pc = "reopen"
    /\ pipe' = [pipe EXCEPT !.pc = IF pipe.writer THEN "reading" ELSE "opening"]
    /\ Call(Result(state, <<>>), [name |-> "reopen", by |-> "pipe"])
    /\ UNCHANGED <<rest_vars, bt, ctl_new_state, is_suspended, usb_vars, disp_vars,
                   idle_vars, att_enabled>>

\* UnixPipe::new after None: the file is removed and a new FIFO made, which no
\* writer has open and which holds no line; then File::open waits for a writer.
recreate ==
    /\ pipe.pc = "recreate"
    /\ pipe' = [pipe EXCEPT !.pc = "opening", !.lines = <<>>, !.writer = FALSE]
    /\ Call(Result(state, <<>>), [name |-> "new", by |-> "pipe"])
    /\ UNCHANGED <<rest_vars, bt, ctl_new_state, is_suspended, usb_vars, disp_vars,
                   idle_vars, att_enabled>>

\* start_receive_commands_task on its FIFO.
receive_commands_task ==
    \/ receive_next_command_line
    \/ receive_next_command_eof
    \/ receive_next_command_err
    \/ reopen
    \/ recreate

\* ------------------------------------------------------------- mute_state.rs
\* listen_mute_state: the audio server reports the default source's mute state;
\* start_listen_mute_state_thread clears the LED when the connection is lost.
listen_mute_state ==
    \E is_muted \in BOOLEAN :
        /\ Call(set_mic_mute_led(state, is_muted),
                          [name |-> "set_mic_mute_led", by |-> "mute_listener", enabled |-> is_muted])
        /\ UNCHANGED <<ext_vars, is_suspended, usb_vars, disp_vars, idle_vars, att_enabled>>

\* ------------------------------------------------------------- idle_detection.rs
\* start_keyboard_listener: an input event of the keyboard sends a pulse.
start_keyboard_listener ==
    /\ start_idle_detection_task(idle_timeout_seconds)
    /\ pulses < MaxPulses
    /\ pulses' = notify(pulses, TRUE)
    /\ Call(Result(state, <<>>),
                          [name |-> "-", by |-> "keyboard_listener"])
    /\ UNCHANGED <<ext_vars, is_suspended, usb_vars, disp_vars, engine_is_idle, clock_vars,
                   att_enabled>>

\* A plausible slip of the activity branch: the flag is cleared without the call.
on_activity_no_idle_end ==
    /\ start_idle_detection_task(idle_timeout_seconds)
    /\ pulses > 0
    /\ pulses' = pulses - 1
    /\ Call(Result(state, <<>>), [name |-> "-", by |-> "idle_engine"])
    /\ engine_is_idle' = FALSE
    /\ UNCHANGED <<ext_vars, is_suspended, usb_vars, disp_vars, att_enabled, idle_timeout_seconds>>

\* A plausible slip of the activity branch: idle_end is called and the task's
\* is_idle is left as it was.
on_activity_flag_kept ==
    /\ start_idle_detection_task(idle_timeout_seconds)
    /\ pulses > 0
    /\ pulses' = pulses - 1
    /\ IF engine_is_idle
       THEN Call(idle_end(state),
                          [name |-> "idle_end", by |-> "idle_engine"])
       ELSE Call(Result(state, <<>>),
                          [name |-> "-", by |-> "idle_engine"])
    /\ UNCHANGED engine_is_idle
    /\ UNCHANGED <<ext_vars, is_suspended, usb_vars, disp_vars, att_enabled, idle_timeout_seconds>>

\* idle_state_task, select branch activity_rx.recv(): Some(()).
on_activity ==
    /\ start_idle_detection_task(idle_timeout_seconds)
    /\ pulses > 0
    /\ pulses' = pulses - 1
    /\ IF engine_is_idle
       THEN Call(idle_end(state),
                          [name |-> "idle_end", by |-> "idle_engine"])
       ELSE Call(Result(state, <<>>),
                          [name |-> "-", by |-> "idle_engine"])
    /\ engine_is_idle' = FALSE
    /\ UNCHANGED <<ext_vars, is_suspended, usb_vars, disp_vars, att_enabled, idle_timeout_seconds>>

\* A plausible slip of the timeout branch: the precondition !is_idle left out.
on_idle_timeout_unguarded ==
    /\ start_idle_detection_task(idle_timeout_seconds)
    /\ Call(idle_start(state),
                          [name |-> "idle_start", by |-> "idle_engine"])
    /\ engine_is_idle' = TRUE
    /\ UNCHANGED <<ext_vars, is_suspended, usb_vars, disp_vars, pulses, att_enabled,
                   idle_timeout_seconds>>

\* idle_state_task, select branch sleep(time_until_idle), if !is_idle.
on_idle_timeout ==
    /\ start_idle_detection_task(idle_timeout_seconds)
    /\ ~engine_is_idle
    /\ Call(idle_start(state),
                          [name |-> "idle_start", by |-> "idle_engine"])
    /\ engine_is_idle' = TRUE
    /\ UNCHANGED <<ext_vars, is_suspended, usb_vars, disp_vars, pulses, att_enabled,
                   idle_timeout_seconds>>

\* idle_state_task: a pulse is received; last_activity = Instant::now(), and the
\* loop computes time_until_idle and enters the select again.
idle_state_task_activity ==
    /\ on_activity
    /\ elapsed' = 0
    /\ slept' = 0
    /\ time_until_idle' = remaining_until_idle(from_secs(idle_timeout_seconds), elapsed')

\* idle_state_task: the sleep has completed; the loop computes time_until_idle
\* and enters the select again.
idle_state_task_timeout ==
    /\ slept >= time_until_idle
    /\ on_idle_timeout
    /\ slept' = 0
    /\ time_until_idle' = remaining_until_idle(from_secs(idle_timeout_seconds), elapsed)
    /\ UNCHANGED elapsed

\* One tick of the clock; both measures stop at IdleTimeout, beyond which the
\* task's comparisons no longer distinguish them.
tick ==
    /\ elapsed' = IF elapsed < IdleTimeout THEN elapsed + 1 ELSE elapsed
    /\ slept' = IF slept < IdleTimeout THEN slept + 1 ELSE slept
    /\ pub' = <<>>
    /\ op' = [name |-> "-", by |-> "clock"]
    /\ UNCHANGED <<ext_vars, state, is_suspended, bus, usb_vars, disp_vars, engine_is_idle, pulses,
                   idle_timeout_seconds, time_until_idle, att_enabled>>

\* The two branches with the passage of time left out: the sleep may have
\* completed at any step.
idle_activity_any_time ==
    /\ on_activity
    /\ UNCHANGED <<elapsed, slept, time_until_idle>>

idle_timeout_any_time ==
    /\ on_idle_timeout
    /\ UNCHANGED <<elapsed, slept, time_until_idle>>

\* ------------------------------------------------------------- consumers.rs
\* suspend_resume_consumer, Event::LaptopSuspend: the events it sends.
on_laptop_suspend(s) ==
    Result(s, <<Backlight("Off"), MicMuteLed(FALSE)>>)

\* A plausible slip of the resume handler: it restores the shadow values.
on_laptop_resume_off(s) ==
    Result(s, <<Backlight("Off"), MicMuteLed(FALSE)>>)

\* suspend_resume_consumer, Event::LaptopResume: the events it sends.
on_laptop_resume(s) ==
    LET backlight_state == get_backlight_raw(s)
        mic_mute_state == get_mic_mute_led_raw(s)
    IN  Result(s, <<Backlight(backlight_state), MicMuteLed(mic_mute_state)>>)

\* suspend_resume_consumer: one LaptopSuspend or LaptopResume event handled.
suspend_resume_consumer ==
    \E event \in {"LaptopSuspend", "LaptopResume"} :
        /\ IF event = "LaptopSuspend"
           THEN /\ is_suspended' = set_suspended(TRUE)
                /\ Call(on_laptop_suspend(state),
                          [name |-> "LaptopSuspend", by |-> "suspend_resume_consumer"])
           ELSE /\ is_suspended' = set_suspended(FALSE)
                /\ Call(on_laptop_resume(state),
                          [name |-> "LaptopResume", by |-> "suspend_resume_consumer"])
        /\ UNCHANGED <<ext_vars, usb_vars, disp_vars, idle_vars, att_enabled>>

\* ------------------------------------------------------------- keyboard_usb.rs
\* A session whose read loop or control task is alive.
Alive(i) == usb_pc[i] # "absent" \/ usb_ctl[i] # "none"

\* The monitor task is inside start_wired_keyboard_task(..).await for session i.
Starting(i) == usb_pc[i] \in {"announce", "restore_backlight", "restore_mic"}

\* The slot a new session gets: the first one with no task alive.
FreeSlot(i) == ~Alive(i) /\ \A j \in Sessions : j < i => Alive(j)

\* A plausible slip of the control task's error branch: Lagged ends the task.
usb_on_recv_error_break(err) ==
    "break"

\* The control task's match on Err(RecvError): Lagged continues, Closed breaks.
usb_on_recv_error(err) ==
    IF err = "Lagged" THEN "continue" ELSE "break"

\* A plausible slip of the shutdown signal: one signal shared by the sessions.
drop_shutdown_tx_shared(sd, i) ==
    [j \in Sessions |-> TRUE]

\* drop(shutdown_tx) of session i's read loop: the oneshot created by this
\* session's start fires, and no other.
drop_shutdown_tx(sd, i) ==
    [sd EXCEPT ![i] = TRUE]

\* start_wired_keyboard_task up to state_manager.set_usb_attached(true), with the
\* receiver the monitor subscribed for it.
start_wired_keyboard_task(i) ==
    /\ LET r == set_usb_keyboard_attached(state, TRUE)
       IN  /\ state' = r.st
           /\ pub' = r.ev
           /\ bus' = send_all(subscribe(bus, UsbRx(i)), r.ev)
    /\ op' = [name |-> "set_usb_keyboard_attached", by |-> "usb_session",
              attached |-> TRUE, session |-> i]
    /\ att_enabled' = state.is_secondary_display_enabled
    /\ usb_pc' = [usb_pc EXCEPT ![i] = "announce"]
    /\ shutdown' = [shutdown EXCEPT ![i] = FALSE]
    /\ usb_lagged' = [usb_lagged EXCEPT ![i] = FALSE]
    /\ UNCHANGED <<ext_vars, is_suspended, usb_ctl, kb_backlight, kb_mic, disp_vars, thread_vars, idle_vars>>

\* start_usb_keyboard_monitor_task on HotplugEvent::Connected: the monitor, when
\* it is not inside a start, starts a session whatever sessions are alive.
start_usb_keyboard_monitor_task ==
    /\ \A j \in Sessions : ~Starting(j)
    /\ \E i \in Sessions : FreeSlot(i) /\ start_wired_keyboard_task(i)

\* The same when the keyboard is connected only after the previous session's tasks
\* have ended.
usb_monitor_connected_after_end ==
    /\ \A j \in Sessions : ~Alive(j)
    /\ start_usb_keyboard_monitor_task

\* event_sender.send(Event::USBKeyboardAttached), claim the interface, enable fn keys.
usb_announce_attached ==
    \E i \in Sessions :
        /\ usb_pc[i] = "announce"
        /\ Call(Result(state, <<USBKeyboardAttached>>),
                [name |-> "-", by |-> "usb_session", session |-> i])
        /\ usb_pc' = [usb_pc EXCEPT ![i] = "restore_backlight"]
        /\ UNCHANGED <<ext_vars, is_suspended, usb_ctl, shutdown, kb_backlight, kb_mic, usb_lagged,
                       disp_vars, thread_vars, idle_vars, att_enabled>>

\* Restore backlight state: get_backlight(), send_backlight_state.
usb_restore_backlight ==
    \E i \in Sessions :
        /\ usb_pc[i] = "restore_backlight"
        /\ LET backlight_state == get_keyboard_backlight(state)
           IN  kb_backlight' =
                   [kb_backlight EXCEPT ![i] = send_backlight_state(backlight_state)]
        /\ Call(Result(state, <<>>),
                [name |-> "get_keyboard_backlight", by |-> "usb_session", session |-> i])
        /\ usb_pc' = [usb_pc EXCEPT ![i] = "restore_mic"]
        /\ UNCHANGED <<ext_vars, is_suspended, usb_ctl, shutdown, kb_mic, usb_lagged, disp_vars, thread_vars,
                       idle_vars, att_enabled>>

\* Restore mic mute LED state, then spawn the control task and the read loop.
usb_restore_mic ==
    \E i \in Sessions :
        /\ usb_pc[i] = "restore_mic"
        /\ LET mic_mute_state == get_mic_mute_led(state)
           IN  kb_mic' = [kb_mic EXCEPT ![i] = send_mute_microphone_state(mic_mute_state)]
        /\ Call(Result(state, <<>>),
                [name |-> "get_mic_mute_led", by |-> "usb_session", session |-> i])
        /\ usb_pc' = [usb_pc EXCEPT ![i] = "running"]
        /\ usb_ctl' = [usb_ctl EXCEPT ![i] = "running"]
        /\ UNCHANGED <<ext_vars, is_suspended, shutdown, kb_backlight, usb_lagged, disp_vars, thread_vars,
                       idle_vars, att_enabled>>

\* The control task, select branch event_receiver.recv().
usb_control_task_recv_io(results) ==
    \E i \in Sessions, result \in results :
        /\ usb_ctl[i] = "running"
        /\ ctl_new_state[i].kind = "none"
        /\ can_recv(bus, UsbRx(i))
        /\ LET event == recv(bus, UsbRx(i))
               b == after_recv(bus, UsbRx(i))
           IN  CASE event.type = "Backlight" ->
                      LET r == set_keyboard_backlight(state, event.level)
                      IN  /\ state' = r.st
                          /\ pub' = r.ev
                          /\ bus' = send_all(b, r.ev)
                          /\ op' = [name |-> "set_keyboard_backlight", by |-> "usb_control",
                                    level |-> event.level, event |-> event,
                                    session |-> i, result |-> result]
                          /\ kb_backlight' =
                                 [kb_backlight EXCEPT
                                      ![i] = control_out(@, send_backlight_state(event.level),
                                                         result)]
                          /\ usb_ctl' =
                                 IF usb_on_control_out(result) = "continue"
                                 THEN usb_ctl
                                 ELSE [usb_ctl EXCEPT ![i] = "panicked"]
                          /\ UNCHANGED <<kb_mic, usb_lagged, ctl_new_state>>
                 [] event.type = "MicMuteLed" ->
                      LET r == set_mic_mute_led(state, event.enabled)
                      IN  /\ state' = r.st
                          /\ pub' = r.ev
                          /\ bus' = send_all(b, r.ev)
                          /\ op' = [name |-> "set_mic_mute_led", by |-> "usb_control",
                                    enabled |-> event.enabled, event |-> event,
                                    session |-> i, result |-> result]
                          /\ kb_mic' =
                                 [kb_mic EXCEPT
                                      ![i] = control_out(@,
                                                 send_mute_microphone_state(event.enabled),
                                                 result)]
                          /\ usb_ctl' =
                                 IF usb_on_control_out(result) = "continue"
                                 THEN usb_ctl
                                 ELSE [usb_ctl EXCEPT ![i] = "panicked"]
                          /\ UNCHANGED <<kb_backlight, usb_lagged, ctl_new_state>>
                 [] event.type = "BacklightToggle" ->
                      \* let new_state = state_manager.get_backlight().await.next();
                      /\ bus' = b
                      /\ pub' = <<>>
                      /\ op' = [name |-> "get_keyboard_backlight", by |-> "usb_control",
                                event |-> event, session |-> i]
                      /\ ctl_new_state' =
                             [ctl_new_state EXCEPT ![i] =
                                 [kind |-> "backlight",
                                  level |-> next(get_keyboard_backlight(state)),
                                  enabled |-> FALSE]]
                      /\ UNCHANGED <<state, kb_backlight, kb_mic, usb_ctl, usb_lagged>>
                 [] event.type = "MicMuteLedToggle" ->
                      \* let new_state = !state_manager.get_mic_mute_led().await;
                      /\ bus' = b
                      /\ pub' = <<>>
                      /\ op' = [name |-> "get_mic_mute_led", by |-> "usb_control",
                                event |-> event, session |-> i]
                      /\ ctl_new_state' =
                             [ctl_new_state EXCEPT ![i] =
                                 [kind |-> "mic", level |-> "Off",
                                  enabled |-> ~get_mic_mute_led(state)]]
                      /\ UNCHANGED <<state, kb_backlight, kb_mic, usb_ctl, usb_lagged>>
                 [] event.type = "Lagged" ->
                      \* Err(RecvError::Lagged(_)): skip lagged messages
                      /\ pub' = <<>>
                      /\ op' = [name |-> "-", by |-> "usb_control", event |-> event,
                                session |-> i]
                      /\ usb_lagged' = [usb_lagged EXCEPT ![i] = TRUE]
                      /\ IF usb_on_recv_error("Lagged") = "continue"
                         THEN /\ bus' = b
                              /\ UNCHANGED usb_ctl
                         ELSE /\ bus' = unsubscribe(bus, UsbRx(i))
                              /\ usb_ctl' = [usb_ctl EXCEPT ![i] = "none"]
                      /\ UNCHANGED <<state, kb_backlight, kb_mic, ctl_new_state>>
                 [] OTHER ->
                      \* _ => {}
                      /\ bus' = b
                      /\ pub' = <<>>
                      /\ op' = [name |-> "-", by |-> "usb_control", event |-> event,
                                session |-> i]
                      /\ UNCHANGED <<state, kb_backlight, kb_mic, usb_ctl, usb_lagged,
                                     ctl_new_state>>
        /\ UNCHANGED <<rest_vars, bt, pipe, is_suspended, usb_pc, shutdown, disp_vars, thread_vars, idle_vars, att_enabled>>

\* The control task when every write to the keyboard succeeds.
usb_control_task_recv ==
    usb_control_task_recv_io({"Ok"})

\* The control task when a write to the keyboard may fail.
usb_control_task_recv_failing ==
    usb_control_task_recv_io(WriteResults)

\* The control task, the rest of a toggle arm: set_backlight(new_state) and
\* send_backlight_state, or set_mic_mute_led(new_state) and
\* send_mute_microphone_state, with the new_state computed before the await.
usb_control_task_toggle_set ==
    \E i \in Sessions :
        /\ usb_ctl[i] = "running"
        /\ ctl_new_state[i].kind # "none"
        /\ IF ctl_new_state[i].kind = "backlight"
           THEN /\ Call(set_keyboard_backlight(state, ctl_new_state[i].level),
                        [name |-> "set_keyboard_backlight", by |-> "usb_control",
                         level |-> ctl_new_state[i].level, event |-> BacklightToggle,
                         session |-> i])
                /\ kb_backlight' =
                       [kb_backlight EXCEPT
                            ![i] = send_backlight_state(ctl_new_state[i].level)]
                /\ UNCHANGED kb_mic
           ELSE /\ Call(set_mic_mute_led(state, ctl_new_state[i].enabled),
                        [name |-> "set_mic_mute_led", by |-> "usb_control",
                         enabled |-> ctl_new_state[i].enabled,
                         event |-> MicMuteLedToggle, session |-> i])
                /\ kb_mic' =
                       [kb_mic EXCEPT
                            ![i] = send_mute_microphone_state(ctl_new_state[i].enabled)]
                /\ UNCHANGED kb_backlight
        /\ ctl_new_state' = [ctl_new_state EXCEPT ![i] = NoNewState]
        /\ UNCHANGED <<rest_vars, bt, pipe, is_suspended, usb_pc, usb_ctl, shutdown, usb_lagged,
                       disp_vars, thread_vars, idle_vars, att_enabled>>

\* The control task, select branch shutdown_rx: break; the receiver is dropped.
usb_control_task_shutdown ==
    \E i \in Sessions :
        /\ usb_ctl[i] = "running"
        /\ ctl_new_state[i].kind = "none"
        /\ shutdown[i]
        /\ usb_ctl' = [usb_ctl EXCEPT ![i] = "none"]
        /\ bus' = unsubscribe(bus, UsbRx(i))
        /\ pub' = <<>>
        /\ op' = [name |-> "-", by |-> "usb_control", event |-> [type |-> "shutdown"],
                  session |-> i]
        /\ UNCHANGED <<ext_vars, state, is_suspended, usb_pc, shutdown, kb_backlight, kb_mic,
                       usb_lagged, disp_vars, thread_vars, idle_vars, att_enabled>>

\* The read loop, completion.status is Err: state_manager.set_usb_attached(false).
usb_read_loop_error ==
    \E i \in Sessions :
        /\ usb_pc[i] = "running"
        /\ Call(set_usb_keyboard_attached(state, FALSE),
                [name |-> "set_usb_keyboard_attached", by |-> "usb_session",
                 attached |-> FALSE, session |-> i])
        /\ att_enabled' = FALSE
        /\ usb_pc' = [usb_pc EXCEPT ![i] = "announce_detached"]
        /\ UNCHANGED <<ext_vars, is_suspended, usb_ctl, shutdown, kb_backlight, kb_mic, usb_lagged,
                       disp_vars, thread_vars, idle_vars>>

\* event_sender.send(Event::USBKeyboardDetached), release keys, drop(shutdown_tx).
usb_announce_detached ==
    \E i \in Sessions :
        /\ usb_pc[i] = "announce_detached"
        /\ Call(Result(state, <<USBKeyboardDetached>>),
                [name |-> "-", by |-> "usb_session", session |-> i])
        /\ usb_pc' = [usb_pc EXCEPT ![i] = "absent"]
        /\ shutdown' = drop_shutdown_tx(shutdown, i)
        /\ kb_backlight' = [kb_backlight EXCEPT ![i] = "none"]
        /\ kb_mic' = [kb_mic EXCEPT ![i] = "none"]
        /\ pressed_keys' = release_all_keys(pressed_keys)
        /\ UNCHANGED <<ext_vars, is_suspended, usb_ctl, usb_lagged, disp_vars, chan_vars, idle_vars,
                       att_enabled>>

\* The read loop, completion.status is Ok: the match on the report's bytes, for
\* the reports the keyboard sends.
usb_read_report(values) ==
    \E i \in Sessions, value \in values :
        /\ usb_pc[i] = "running"
        /\ LET r == usb_on_report(value, config, state, pressed_keys)
           IN  /\ Call(Result(r.st, r.ev),
                       [name |-> "-", by |-> "usb_read", session |-> i,
                        raw |-> value, key_events |-> r.out])
               /\ pressed_keys' = r.keys
        /\ UNCHANGED <<ext_vars, is_suspended, usb_pc, usb_ctl, shutdown, kb_backlight,
                       kb_mic, usb_lagged, disp_vars, chan_vars, idle_vars, att_enabled>>

\* The same when only the backlight key is pressed and released.
usb_read_backlight_key ==
    usb_read_report({Neutral, 199})

\* ------------------------------------------------------------- keyboard_bt.rs
\* Scenario A's raw values: neutral, the backlight key, neutral.
ScenarioA == <<Neutral, 199, Neutral>>

\* History: the last raw values the read task handled, the newest last, as far
\* as they are a beginning of Scenario A.
Remember(raws, value) ==
    LET all == Append(raws, value)
        fits(k) == /\ k <= Len(ScenarioA)
                   /\ SubSeq(all, Len(all) - k + 1, Len(all)) = SubSeq(ScenarioA, 1, k)
        n == CHOOSE k \in 0..Len(all) :
                 fits(k) /\ \A j \in 0..Len(all) : fits(j) => j <= k
    IN  SubSeq(all, Len(all) - n + 1, Len(all))

\* A plausible slip of the Bluetooth start: it marks the wired keyboard attached.
start_bt_keyboard_task_attaching ==
    /\ bt.pc = "absent"
    /\ bt.ctl = "none"
    /\ bt' = [pc |-> "running", ctl |-> "running", shutdown |-> FALSE, raws |-> <<>>]
    /\ LET r == set_usb_keyboard_attached(state, TRUE)
       IN  /\ state' = r.st
           /\ pub' = r.ev
           /\ bus' = send_all(subscribe(bus, BtRx), r.ev)
    /\ op' = [name |-> "start", by |-> "bt_session"]
    /\ UNCHANGED <<pipe, ctl_new_state, rest_vars, is_suspended, usb_vars, disp_vars,
                   idle_vars, att_enabled>>

\* start_bt_keyboard_task with the receiver the monitor subscribed for it: the
\* event file is opened, the oneshot created, the control task and the read task
\* spawned.
start_bt_keyboard_task ==
    /\ bt.pc = "absent"
    /\ bt.ctl = "none"
    /\ bt' = [pc |-> "running", ctl |-> "running", shutdown |-> FALSE, raws |-> <<>>]
    /\ bus' = subscribe(bus, BtRx)
    /\ pub' = <<>>
    /\ op' = [name |-> "start", by |-> "bt_session"]
    /\ UNCHANGED <<state, pipe, ctl_new_state, rest_vars, is_suspended, usb_vars,
                   disp_vars, idle_vars, att_enabled>>

\* The control task, select branch event_receiver.recv(): Backlight and
\* MicMuteLed are not sent to the keyboard, other events are ignored, Lagged
\* continues.
bt_control_task_recv ==
    /\ bt.ctl = "running"
    /\ can_recv(bus, BtRx)
    /\ bus' = after_recv(bus, BtRx)
    /\ pub' = <<>>
    /\ op' = [name |-> "-", by |-> "bt_control", event |-> recv(bus, BtRx)]
    /\ UNCHANGED <<state, ext_vars, is_suspended, usb_vars, disp_vars, idle_vars,
                   att_enabled>>

\* The control task, select branch shutdown_rx: break; the receiver is dropped.
bt_control_task_shutdown ==
    /\ bt.ctl = "running"
    /\ bt.shutdown
    /\ bt' = [bt EXCEPT !.ctl = "none"]
    /\ bus' = unsubscribe(bus, BtRx)
    /\ pub' = <<>>
    /\ op' = [name |-> "-", by |-> "bt_control", event |-> [type |-> "shutdown"]]
    /\ UNCHANGED <<state, pipe, ctl_new_state, rest_vars, is_suspended, usb_vars,
                   disp_vars, idle_vars, att_enabled>>

\* The read task, one EV_ABS(ABS_MISC) event read from the device.
bt_read_task_event ==
    \E value \in RawValues :
        /\ bt.pc = "running"
        /\ LET r == bt_on_abs_misc(value, config, state, pressed_keys)
           IN  /\ Call(r, [name |-> "-", by |-> "bt_read", raw |-> value,
                           key_events |-> r.out])
               /\ pressed_keys' = r.keys
        /\ bt' = [bt EXCEPT !.raws = Remember(bt.raws, value)]
        /\ UNCHANGED <<pipe, ctl_new_state, rest_vars, is_suspended, usb_pc, usb_ctl,
                       shutdown, kb_backlight, kb_mic, usb_lagged, chan_vars, disp_vars,
                       idle_vars, att_enabled>>

\* The read task, the device has disappeared (or the blocking read's join
\* failed): release_all_keys, drop(shutdown_tx), return.
bt_read_task_error ==
    /\ bt.pc = "running"
    /\ bt' = [bt EXCEPT !.pc = "absent", !.shutdown = TRUE, !.raws = <<>>]
    /\ Call(Result(state, <<>>),
            [name |-> "end", by |-> "bt_session",
             key_events |-> release_all_keys_events(pressed_keys)])
    /\ pressed_keys' = release_all_keys(pressed_keys)
    /\ UNCHANGED <<pipe, ctl_new_state, rest_vars, is_suspended, usb_pc, usb_ctl,
                   shutdown, kb_backlight, kb_mic, usb_lagged, chan_vars, disp_vars,
                   idle_vars, att_enabled>>

\* The Bluetooth session.
BtSession ==
    \/ start_bt_keyboard_task
    \/ bt_control_task_recv
    \/ bt_control_task_shutdown
    \/ bt_read_task_event
    \/ bt_read_task_error

\* ------------------------------------------------------- wired_keyboard_thread.rs
\* sender.send(..) on the EventBus.
ChanSend(evs) ==
    /\ chan' = chan \o evs
    /\ sent' = sent + Len(evs)

\* The number, in the order of sending, of the event at the head of the channel.
HeadId == sent - Len(chan) + 1

\* event_receiver.iter() of receiver r yields the event at the head of the channel.
ChanTake(r) ==
    taken' = [taken EXCEPT ![r] = Append(@, HeadId)]

\* The key press events the read loop decodes from a report.
KeyPressEvents == {"KeyboardBacklightKeyPressed", "EmojiPickerKeyPressed", "AllKeysReleased"}

\* wired_keyboard_thread up to state_manager.set_usb_attached(true), with the
\* receiver the monitor cloned for it.
wired_keyboard_thread(i) ==
    /\ Call(set_usb_keyboard_attached(state, TRUE),
            [name |-> "set_usb_keyboard_attached", by |-> "wired_thread",
             attached |-> TRUE, session |-> i])
    /\ att_enabled' = state.is_secondary_display_enabled
    /\ usb_pc' = [usb_pc EXCEPT ![i] = "announce"]
    /\ sub_at' = [sub_at EXCEPT ![WiredRx(i)] = sent]
    /\ UNCHANGED <<ext_vars, is_suspended, usb_ctl, shutdown, kb_backlight, kb_mic, usb_lagged,
                   chan, sent, taken, key_chan, pressed_keys, disp_vars, idle_vars>>

\* monitor_usb_keyboard_hotplug on HotplugEvent::Connected: the monitor calls
\* wired_keyboard_thread, which returns when its read loop returns.
monitor_usb_keyboard_hotplug ==
    /\ \A j \in Sessions : usb_pc[j] = "absent"
    /\ \E i \in Sessions : FreeSlot(i) /\ wired_keyboard_thread(i)

\* event_sender.send(Event::USBKeyboardAttached), claim the interface, enable fn keys.
wired_announce_attached ==
    \E i \in Sessions :
        /\ usb_pc[i] = "announce"
        /\ ChanSend(<<USBKeyboardAttached>>)
        /\ Call(Result(state, <<>>), [name |-> "-", by |-> "wired_thread", session |-> i])
        /\ usb_pc' = [usb_pc EXCEPT ![i] = "restore"]
        /\ UNCHANGED <<ext_vars, is_suspended, usb_ctl, shutdown, kb_backlight, kb_mic, usb_lagged,
                       taken, sub_at, key_chan, pressed_keys, disp_vars, idle_vars,
                       att_enabled>>

\* Restore backlight state and mic mute LED state, spawn the control thread.
wired_restore ==
    \E i \in Sessions :
        /\ usb_pc[i] = "restore"
        /\ LET backlight_state == get_keyboard_backlight(state)
               mic_mute_state == get_mic_mute_led(state)
           IN  /\ kb_backlight' =
                      [kb_backlight EXCEPT ![i] = send_backlight_state(backlight_state)]
               /\ kb_mic' =
                      [kb_mic EXCEPT ![i] = send_mute_microphone_state(mic_mute_state)]
        /\ Call(Result(state, <<>>),
                [name |-> "get_keyboard_backlight", by |-> "wired_thread", session |-> i])
        /\ usb_pc' = [usb_pc EXCEPT ![i] = "running"]
        /\ usb_ctl' = [usb_ctl EXCEPT ![i] = "running"]
        /\ UNCHANGED <<ext_vars, is_suspended, shutdown, usb_lagged, thread_vars, disp_vars,
                       idle_vars, att_enabled>>

\* The control thread: for event in event_receiver.iter(), one event.
wired_control_thread_io(results) ==
    \E i \in Sessions, result \in results :
        /\ usb_ctl[i] = "running"
        /\ chan # <<>>
        /\ chan' = Tail(chan)
        /\ ChanTake(WiredRx(i))
        /\ LET event == Head(chan)
               Written(current, data) ==
                   [current EXCEPT ![i] = control_out(@, data, result)]
               Step(name, payload) ==
                   [name |-> name, by |-> "wired_control", session |-> i,
                    event |-> event, write |-> payload, result |-> result]
           IN  CASE event.type = "BacklightToggle" ->
                      LET new_state == next(get_keyboard_backlight(state))
                      IN  /\ Call(set_keyboard_backlight(state, new_state),
                                  Step("set_keyboard_backlight",
                                       send_backlight_state(new_state)))
                          /\ kb_backlight' = Written(kb_backlight, send_backlight_state(new_state))
                          /\ usb_ctl' = IF wired_on_control_out(result) = "continue"
                                         THEN usb_ctl
                                         ELSE [usb_ctl EXCEPT ![i] = "panicked"]
                          /\ UNCHANGED kb_mic
                 [] event.type = "Backlight" ->
                      /\ Call(set_keyboard_backlight(state, event.level),
                              Step("set_keyboard_backlight",
                                   send_backlight_state(event.level)))
                      /\ kb_backlight' = Written(kb_backlight, send_backlight_state(event.level))
                      /\ usb_ctl' = IF wired_on_control_out(result) = "continue"
                                     THEN usb_ctl
                                     ELSE [usb_ctl EXCEPT ![i] = "panicked"]
                      /\ UNCHANGED kb_mic
                 [] event.type = "MicMuteLed" ->
                      /\ Call(set_mic_mute_led(state, event.enabled),
                              Step("set_mic_mute_led",
                                   send_mute_microphone_state(event.enabled)))
                      /\ kb_mic' = Written(kb_mic, send_mute_microphone_state(event.enabled))
                      /\ usb_ctl' = IF wired_on_control_out(result) = "continue"
                                     THEN usb_ctl
                                     ELSE [usb_ctl EXCEPT ![i] = "panicked"]
                      /\ UNCHANGED kb_backlight
                 [] event.type = "MicMuteLedToggle" ->
                      LET new_state == ~get_mic_mute_led(state)
                      IN  /\ Call(set_mic_mute_led(state, new_state),
                                  Step("set_mic_mute_led",
                                       send_mute_microphone_state(new_state)))
                          /\ kb_mic' = Written(kb_mic, send_mute_microphone_state(new_state))
                          /\ usb_ctl' = IF wired_on_control_out(result) = "continue"
                                         THEN usb_ctl
                                         ELSE [usb_ctl EXCEPT ![i] = "panicked"]
                          /\ UNCHANGED kb_backlight
                 [] OTHER ->
                      \* _ => {}
                      /\ Call(Result(state, <<>>),
                              [Step("-", "none") EXCEPT !.result = "none"])
                      /\ UNCHANGED <<kb_backlight, kb_mic, usb_ctl>>
        /\ UNCHANGED <<ext_vars, is_suspended, usb_pc, shutdown, usb_lagged, sent, sub_at,
                       key_chan, pressed_keys, disp_vars, idle_vars, att_enabled>>

\* The control thread when every write to the keyboard succeeds.
wired_control_thread ==
    wired_control_thread_io({"Ok"})

\* The control thread when a write to the keyboard may fail.
wired_control_thread_failing ==
    wired_control_thread_io(WriteResults)

\* The read loop, Ok(_): the report is decoded and its key press event sent.
wired_read_key ==
    \E i \in Sessions, key_event \in KeyPressEvents :
        /\ usb_pc[i] = "running"
        /\ Len(key_chan) < MaxKeyEvents
        /\ sent + Len(key_chan) < MaxSent
        /\ key_chan' = Append(key_chan, key_event)
        /\ Call(Result(state, <<>>),
                [name |-> "-", by |-> "wired_thread", session |-> i])
        /\ UNCHANGED <<ext_vars, is_suspended, usb_pc, usb_ctl, shutdown, kb_backlight, kb_mic,
                       usb_lagged, chan, sent, taken, sub_at, pressed_keys, disp_vars,
                       idle_vars, att_enabled>>

\* The read loop, Err(TransferError::Disconnected): set_usb_attached(false).
wired_read_disconnected ==
    \E i \in Sessions :
        /\ usb_pc[i] = "running"
        /\ Call(set_usb_keyboard_attached(state, FALSE),
                [name |-> "set_usb_keyboard_attached", by |-> "wired_thread",
                 attached |-> FALSE, session |-> i])
        /\ att_enabled' = FALSE
        /\ usb_pc' = [usb_pc EXCEPT ![i] = "announce_detached"]
        /\ UNCHANGED <<ext_vars, is_suspended, usb_ctl, shutdown, kb_backlight, kb_mic, usb_lagged,
                       thread_vars, disp_vars, idle_vars>>

\* event_sender.send(Event::USBKeyboardDetached),
\* key_press_event_sender.send(KeyPressEvent::AllKeysReleased), return.
wired_announce_detached ==
    \E i \in Sessions :
        /\ usb_pc[i] = "announce_detached"
        /\ ChanSend(<<USBKeyboardDetached>>)
        /\ key_chan' = Append(key_chan, "AllKeysReleased")
        /\ Call(Result(state, <<>>),
                [name |-> "return", by |-> "wired_thread", session |-> i])
        /\ usb_pc' = [usb_pc EXCEPT ![i] = "absent"]
        /\ UNCHANGED <<ext_vars, is_suspended, usb_ctl, shutdown, kb_backlight, kb_mic, usb_lagged,
                       taken, sub_at, pressed_keys, disp_vars, idle_vars, att_enabled>>

\* ------------------------------------------------------------- consumers.rs
\* virtual_keyboard_consumer: one key press event, with the default key functions.
virtual_keyboard_consumer ==
    /\ key_chan # <<>>
    /\ key_chan' = Tail(key_chan)
    /\ LET key_event == Head(key_chan)
       IN  CASE key_event = "KeyboardBacklightKeyPressed" ->
                  \* KeyFunction::KeyboardBacklight(true)
                  /\ ChanSend(<<BacklightToggle>>)
                  /\ UNCHANGED pressed_keys
             [] key_event = "EmojiPickerKeyPressed" ->
                  \* KeyFunction::KeyBind(items)
                  /\ pressed_keys' = release_prev_and_press_keys(pressed_keys, EmojiPickerKeys)
                  /\ UNCHANGED <<chan, sent>>
             [] OTHER ->
                  \* KeyPressEvent::AllKeysReleased
                  /\ pressed_keys' = release_all_keys(pressed_keys)
                  /\ UNCHANGED <<chan, sent>>
    /\ Call(Result(state, <<>>), [name |-> "-", by |-> "virtual_keyboard_consumer"])
    /\ UNCHANGED <<ext_vars, is_suspended, usb_pc, usb_ctl, shutdown, kb_backlight, kb_mic,
                   usb_lagged, taken, sub_at, disp_vars, idle_vars, att_enabled>>

\* suspend_resume_consumer: for event in event_receiver.iter(), one event.
suspend_resume_consumer_thread ==
    /\ chan # <<>>
    /\ ChanTake(ConsumerRx)
    /\ LET event == Head(chan)
       IN  CASE event.type = "LaptopSuspend" ->
                  /\ is_suspended' = set_suspended(TRUE)
                  /\ chan' = Tail(chan) \o on_laptop_suspend(state).ev
                  /\ sent' = sent + Len(on_laptop_suspend(state).ev)
             [] event.type = "LaptopResume" ->
                  /\ is_suspended' = set_suspended(FALSE)
                  /\ chan' = Tail(chan) \o on_laptop_resume(state).ev
                  /\ sent' = sent + Len(on_laptop_resume(state).ev)
             [] OTHER ->
                  \* _ => {}
                  /\ chan' = Tail(chan)
                  /\ UNCHANGED <<is_suspended, sent>>
    /\ Call(Result(state, <<>>),
            [name |-> "-", by |-> "suspend_resume_consumer", event |-> Head(chan)])
    /\ UNCHANGED <<ext_vars, usb_pc, usb_ctl, shutdown, kb_backlight, kb_mic, usb_lagged, sub_at,
                   key_chan, pressed_keys, disp_vars, idle_vars, att_enabled>>

\* ------------------------------------------------------------- secondary_display.rs
\* start_secondary_display_task up to the spawn of its tasks; its receiver is
\* subscribed by the caller.
start_secondary_display_task ==
    /\ disp_pc = "init"
    /\ LET r == IF state.is_usb_attached
                THEN set_secondary_display(state, FALSE)
                ELSE set_secondary_display(state,
                         is_secondary_display_enabled_actual(panel_status))
       IN  /\ state' = r.st
           /\ pub' = r.ev
           /\ bus' = send_all(subscribe(bus, DisplayRx), r.ev)
    /\ IF state.is_usb_attached
       THEN /\ panel_status' = control_secondary_display(FALSE)
            /\ op' = [name |-> "set_secondary_display", by |-> "display",
                      enabled |-> FALSE, event |-> [type |-> "start"],
                      write |-> control_secondary_display(FALSE)]
       ELSE /\ UNCHANGED panel_status
            /\ op' = [name |-> "set_secondary_display", by |-> "display",
                      enabled |-> is_secondary_display_enabled_actual(panel_status),
                      event |-> [type |-> "start"],
                      write |-> "none"]
    /\ disp_pc' = "running"
    /\ UNCHANGED <<ext_vars, is_suspended, usb_vars, idle_vars, att_enabled>>

\* The event task's match on Err(RecvError): Lagged continues, Closed breaks.
display_on_recv_error(err) ==
    IF err = "Lagged" THEN "continue" ELSE "break"

\* The event task: one recv() and its handler.
secondary_display_event_task ==
    /\ disp_pc = "running"
    /\ can_recv(bus, DisplayRx)
    /\ LET event == recv(bus, DisplayRx)
           b == after_recv(bus, DisplayRx)
       IN  CASE event.type = "USBKeyboardAttached" ->
                  \* Always disable display when keyboard attaches
                  LET r == set_secondary_display(state, FALSE)
                  IN  /\ state' = r.st
                      /\ pub' = r.ev
                      /\ bus' = send_all(b, r.ev)
                      /\ op' = [name |-> "set_secondary_display", by |-> "display",
                                enabled |-> FALSE, event |-> event,
                                write |-> control_secondary_display(FALSE)]
                      /\ panel_status' = control_secondary_display(FALSE)
                      /\ UNCHANGED disp_pc
             [] event.type = "USBKeyboardDetached" ->
                  \* Enable display when keyboard detaches
                  LET r == set_secondary_display(state, TRUE)
                  IN  /\ state' = r.st
                      /\ pub' = r.ev
                      /\ bus' = send_all(b, r.ev)
                      /\ op' = [name |-> "set_secondary_display", by |-> "display",
                                enabled |-> TRUE, event |-> event,
                                write |-> control_secondary_display(TRUE)]
                      /\ panel_status' = control_secondary_display(TRUE)
                      /\ UNCHANGED disp_pc
             [] event.type = "SecondaryDisplayToggle" ->
                  \* if !is_usb_attached() { let new_state = !is_secondary_display_enabled();
                  /\ bus' = b
                  /\ pub' = <<>>
                  /\ op' = [name |-> "is_secondary_display_enabled", by |-> "display",
                            write |-> "none", event |-> event]
                  /\ disp_pc' = IF state.is_usb_attached
                                THEN "running"
                                ELSE IF ~is_secondary_display_enabled(state)
                                     THEN "toggle_on" ELSE "toggle_off"
                  /\ UNCHANGED <<state, panel_status>>
             [] event.type = "Lagged" ->
                  /\ pub' = <<>>
                  /\ op' = [name |-> "-", by |-> "display", write |-> "none",
                            event |-> event]
                  /\ IF display_on_recv_error("Lagged") = "continue"
                     THEN /\ bus' = b
                          /\ UNCHANGED disp_pc
                     ELSE /\ bus' = unsubscribe(bus, DisplayRx)
                          /\ disp_pc' = "verify_only"
                  /\ UNCHANGED <<state, panel_status>>
             [] OTHER ->
                  /\ bus' = b
                  /\ pub' = <<>>
                  /\ op' = [name |-> "-", by |-> "display", write |-> "none",
                            event |-> event]
                  /\ UNCHANGED <<state, panel_status, disp_pc>>
    /\ UNCHANGED <<ext_vars, is_suspended, usb_vars, idle_vars, att_enabled>>

\* The event task, the rest of the SecondaryDisplayToggle arm:
\* set_secondary_display_enabled(new_state) and control_secondary_display, with
\* the new_state computed before the await.
secondary_display_toggle_set ==
    /\ disp_pc \in {"toggle_on", "toggle_off"}
    /\ LET new_state == (disp_pc = "toggle_on")
       IN  /\ Call(set_secondary_display(state, new_state),
                   [name |-> "set_secondary_display", by |-> "display",
                    enabled |-> new_state, event |-> SecondaryDisplayToggle,
                    write |-> control_secondary_display(new_state)])
           /\ panel_status' = control_secondary_display(new_state)
    /\ disp_pc' = "running"
    /\ UNCHANGED <<ext_vars, is_suspended, usb_vars, idle_vars, att_enabled>>

\* A plausible slip of the reconciler: the desired value is written at every tick.
verify_write_always(actual_enabled, desired_enabled) ==
    control_secondary_display(desired_enabled)

\* The reconciler's decision: what it writes to the panel-status file, "none"
\* when it writes nothing.
verify_write(actual_enabled, desired_enabled) ==
    IF actual_enabled # desired_enabled
    THEN control_secondary_display(desired_enabled)
    ELSE "none"

\* The periodic task that verifies and enforces the display state: one tick.
secondary_display_verify_task ==
    /\ disp_pc \in {"running", "verify_only", "toggle_on", "toggle_off"}
    /\ LET actual_enabled == is_secondary_display_enabled_actual(panel_status)
           desired_enabled == is_secondary_display_enabled(state)
           data == verify_write(actual_enabled, desired_enabled)
       IN  /\ panel_status' = IF data = "none" THEN panel_status ELSE data
           /\ op' = [name |-> "is_secondary_display_enabled", by |-> "verify",
                     write |-> data]
    /\ pub' = <<>>
    /\ UNCHANGED <<ext_vars, state, is_suspended, bus, usb_vars, disp_pc, idle_vars, att_enabled>>

\* ------------------------------------------------------------------ store API
\* Any caller of the KeyboardStateManager: one call of one of its mutators.
store_client ==
    /\ \/ Call(idle_start(state), [name |-> "idle_start", by |-> "client"])
       \/ Call(idle_end(state), [name |-> "idle_end", by |-> "client"])
       \/ \E enabled \in BOOLEAN :
              Call(set_mic_mute_led(state, enabled),
                   [name |-> "set_mic_mute_led", by |-> "client", enabled |-> enabled])
       \/ Call(toggle_mic_mute_led(state),
               [name |-> "toggle_mic_mute_led", by |-> "client"])
       \/ \E new_state \in KeyboardBacklightState :
              Call(set_keyboard_backlight(state, new_state),
                   [name |-> "set_keyboard_backlight", by |-> "client",
                    level |-> new_state])
       \/ Call(toggle_keyboard_backlight(state),
               [name |-> "toggle_keyboard_backlight", by |-> "client"])
       \/ \E enabled \in BOOLEAN :
              Call(set_secondary_display(state, enabled),
                   [name |-> "set_secondary_display", by |-> "client",
                    enabled |-> enabled])
       \/ Call(toggle_secondary_display(state),
               [name |-> "toggle_secondary_display", by |-> "client"])
       \/ \E attached \in BOOLEAN :
              Call(set_usb_keyboard_attached(state, attached),
                   [name |-> "set_usb_keyboard_attached", by |-> "client",
                    attached |-> attached])
    /\ att_enabled' = IF op'.name = "set_usb_keyboard_attached"
                      THEN op'.attached /\ state.is_secondary_display_enabled
                      ELSE att_enabled
    /\ UNCHANGED <<ext_vars, is_suspended, usb_vars, disp_vars, idle_vars>>

\* ------------------------------------------------------- state.rs: the RwLock
\* The methods that take self.state.write(); the others take self.state.read().
Mutators ==
    {"idle_start", "idle_end", "set_mic_mute_led", "toggle_mic_mute_led",
     "set_keyboard_backlight", "toggle_keyboard_backlight"}

\* The body of the called method: the state it leaves and the events it sends.
Apply(s, call) ==
    CASE call.name = "idle_start" -> idle_start(s)
      [] call.name = "idle_end" -> idle_end(s)
      [] call.name = "set_mic_mute_led" -> set_mic_mute_led(s, call.enabled)
      [] call.name = "toggle_mic_mute_led" -> toggle_mic_mute_led(s)
      [] call.name = "set_keyboard_backlight" -> set_keyboard_backlight(s, call.level)
      [] call.name = "toggle_keyboard_backlight" -> toggle_keyboard_backlight(s)
      [] OTHER -> Result(s, <<>>)

\* An event with the number of the mutation that sent it and its place among
\* that mutation's events (history).
Tagged(e, n, k) ==
    [x \in DOMAIN e \cup {"seq", "nth"} |->
        IF x = "seq" THEN n ELSE IF x = "nth" THEN k ELSE e[x]]

RECURSIVE TaggedAll(_, _, _)
TaggedAll(evs, n, k) ==
    IF evs = <<>> THEN <<>>
    ELSE <<Tagged(Head(evs), n, k)>> \o TaggedAll(Tail(evs), n, k + 1)

\* History: the tags of the last two events receiver s was given.
Received(got, s, event) ==
    IF event.type = "Lagged" THEN got
    ELSE [got EXCEPT ![s] = <<@[2], <<event.seq, event.nth>>>>]

\* A plausible slip of the guard's scope: it is dropped when the state has been
\* changed, before the events are sent.
Holders_until_mutated(l) ==
    {c \in LockCallers : l.pc[c] = "holding"}

\* The callers that hold a guard of the lock: let state = self.state.write() (or
\* read()) lives to the end of the method, across its sends.
Holders(l) ==
    {c \in LockCallers : l.pc[c] \in {"holding", "sending"}}

\* self.state.write() returns when no guard is held, self.state.read() when no
\* write guard is held.
CanAcquire(l, c) ==
    IF l.call[c].name \in Mutators
    THEN Holders(l) = {}
    ELSE \A h \in Holders(l) : l.call[h].name \notin Mutators

\* A plausible slip of the channel: a send waits while a receiver's queue is full.
send_would_block_when_full(b) ==
    \E r \in b.rx : b.unread[r] = BusCapacity

\* broadcast::Sender::send returns at once: a full queue drops its oldest event.
send_would_block(b) ==
    FALSE

\* What no step of the lock changes.
lock_rest == <<is_suspended, usb_vars, disp_vars, pulses, clock_vars, att_enabled,
               bt, pipe, ctl_new_state, config>>

\* A caller starts a store method: it is now inside write() or read().
lock_call(c, call) ==
    /\ lock.pc[c] = "idle"
    /\ lock.started < MaxCalls
    /\ lock' = [lock EXCEPT !.pc[c] = "waiting", !.call[c] = call,
                            !.started = @ + 1]
    /\ op' = [name |-> call.name, by |-> c, step |-> "call"]
    /\ pub' = <<>>

\* idle_state_task calls idle_start or idle_end, by its local is_idle.
lock_idle_engine ==
    /\ lock_call("idle_engine",
                 IF engine_is_idle THEN StoreCall("idle_end", "Off", FALSE)
                 ELSE StoreCall("idle_start", "Off", FALSE))
    /\ UNCHANGED <<state, bus, engine_is_idle, lock_rest>>

\* The dispatcher calls the method of a toggle command.
lock_dispatcher ==
    /\ \E name \in {"toggle_keyboard_backlight", "toggle_mic_mute_led"} :
           lock_call("dispatcher", StoreCall(name, "Off", FALSE))
    /\ UNCHANGED <<state, bus, engine_is_idle, lock_rest>>

\* The monitor subscribes a receiver and the session's start reads the backlight
\* for its restore.
lock_usb_session ==
    /\ lock_call("usb_session", StoreCall("get_keyboard_backlight", "Off", FALSE))
    /\ bus' = IF UsbRx(1) \in bus.rx THEN bus ELSE subscribe(bus, UsbRx(1))
    /\ UNCHANGED <<state, engine_is_idle, lock_rest>>

\* The control task receives an event and calls the store back with it.
lock_usb_control ==
    /\ lock.pc["usb_control"] = "idle"
    /\ can_recv(bus, UsbRx(1))
    /\ LET event == recv(bus, UsbRx(1))
           got == Received(lock.got, UsbRx(1), event)
           call == CASE event.type = "Backlight" ->
                            StoreCall("set_keyboard_backlight", event.level, FALSE)
                     [] event.type = "MicMuteLed" ->
                            StoreCall("set_mic_mute_led", "Off", event.enabled)
                     [] OTHER -> NoCall
       IN  /\ call # NoCall => lock.started < MaxCalls
           /\ lock' = IF call = NoCall
                      THEN [lock EXCEPT !.got = got]
                      ELSE [lock EXCEPT !.got = got, !.pc["usb_control"] = "waiting",
                                        !.call["usb_control"] = call,
                                        !.started = @ + 1]
           /\ op' = [name |-> call.name, by |-> "usb_control", step |-> "call"]
    /\ bus' = after_recv(bus, UsbRx(1))
    /\ pub' = <<>>
    /\ UNCHANGED <<state, engine_is_idle, lock_rest>>

\* The display task's receiver is subscribed; its event task receives an event
\* that is none of its own: _ => {}.
lock_display ==
    /\ \/ /\ DisplayRx \notin bus.rx
          /\ bus' = subscribe(bus, DisplayRx)
          /\ UNCHANGED lock
       \/ /\ can_recv(bus, DisplayRx)
          /\ lock' = [lock EXCEPT !.got = Received(@, DisplayRx, recv(bus, DisplayRx))]
          /\ bus' = after_recv(bus, DisplayRx)
    /\ op' = [name |-> "-", by |-> "display", step |-> "recv"]
    /\ pub' = <<>>
    /\ UNCHANGED <<state, engine_is_idle, lock_rest>>

\* write() or read() returns the guard.
lock_acquire(c) ==
    /\ lock.pc[c] = "waiting"
    /\ CanAcquire(lock, c)
    /\ lock' = [lock EXCEPT !.pc[c] = "holding"]
    /\ op' = [name |-> lock.call[c].name, by |-> c, step |-> "acquire"]
    /\ pub' = <<>>
    /\ UNCHANGED <<state, bus, engine_is_idle, lock_rest>>

\* The method's assignments to the state, under the guard.
lock_mutate(c) ==
    /\ lock.pc[c] = "holding"
    /\ LET r == Apply(state, lock.call[c])
           n == IF lock.call[c].name \in Mutators
                THEN lock.applied + 1 ELSE lock.applied
       IN  /\ state' = r.st
           /\ lock' = [lock EXCEPT !.pc[c] = "sending",
                                   !.pending[c] = TaggedAll(r.ev, n, 1),
                                   !.applied = n]
    /\ op' = [name |-> lock.call[c].name, by |-> c, step |-> "mutate"]
    /\ pub' = <<>>
    /\ UNCHANGED <<bus, engine_is_idle, lock_rest>>

\* One self.sender.send(..).ok() of the method.
lock_send(c) ==
    /\ lock.pc[c] = "sending"
    /\ lock.pending[c] # <<>>
    /\ ~send_would_block(bus)
    /\ bus' = send(bus, Head(lock.pending[c]))
    /\ pub' = <<Head(lock.pending[c])>>
    /\ lock' = [lock EXCEPT !.pending[c] = Tail(@)]
    /\ op' = [name |-> lock.call[c].name, by |-> c, step |-> "send"]
    /\ UNCHANGED <<state, engine_is_idle, lock_rest>>

\* The method returns: the guard is dropped; the idle engine sets its is_idle.
lock_release(c) ==
    /\ lock.pc[c] = "sending"
    /\ lock.pending[c] = <<>>
    /\ lock' = [lock EXCEPT !.pc[c] = "idle", !.call[c] = NoCall]
    /\ engine_is_idle' = IF c = "idle_engine"
                         THEN lock.call[c].name = "idle_start"
                         ELSE engine_is_idle
    /\ op' = [name |-> lock.call[c].name, by |-> c, step |-> "release"]
    /\ pub' = <<>>
    /\ UNCHANGED <<state, bus, lock_rest>>

\* A caller inside a store method goes on.
lock_step(c) ==
    \/ lock_acquire(c)
    \/ lock_mutate(c)
    \/ lock_send(c)
    \/ lock_release(c)

\* ------------------------------------------------------------------ system
\* The tasks that call the store without subscribing to the bus.
StoreCallers ==
    \/ start_receive_commands_task
    \/ listen_mute_state
    \/ start_keyboard_listener
    \/ idle_activity_any_time
    \/ idle_timeout_any_time
    \/ suspend_resume_consumer

\* The wired keyboard session: start-up, control task, read loop.
WiredSession ==
    \/ usb_monitor_connected_after_end
    \/ usb_announce_attached
    \/ usb_restore_backlight
    \/ usb_restore_mic
    \/ usb_control_task_recv
    \/ usb_control_task_shutdown
    \/ usb_read_loop_error
    \/ usb_announce_detached

\* The secondary display task.
DisplayTask ==
    \/ start_secondary_display_task
    \/ secondary_display_event_task
    \/ secondary_display_verify_task

\* The store and the tasks that call it; no keyboard session and no display
\* task has been started.
Next == StoreCallers

Spec == Init /\ [][Next]_vars

\* The store under every sequence of calls of its mutators.
NextApi == store_client

SpecApi == Init /\ [][NextApi]_vars

\* A wired session with the idle engine, the suspend/resume consumer and an
\* operator who toggles the backlight and the mic-mute LED.
NextSession ==
    \/ WiredSession
    \/ receive_toggle_commands
    \/ start_keyboard_listener
    \/ idle_activity_any_time
    \/ idle_timeout_any_time
    \/ suspend_resume_consumer

SpecSession == Init /\ [][NextSession]_vars

\* A wired session with the display task and an operator who sends display
\* commands.
NextDisplay ==
    \/ WiredSession
    \/ DisplayTask
    \/ receive_display_commands

SpecDisplay == Init /\ [][NextDisplay]_vars

\* The same where the reconciler's interval keeps ticking once the display task
\* has been started, and the task is started.
SpecDisplayFair ==
    /\ SpecDisplay
    /\ WF_vars(start_secondary_display_task)
    /\ WF_vars(secondary_display_verify_task)

\* A wired session with the idle engine and an operator who sends toggle and
\* display commands, so that a control task falls behind.
NextLag ==
    \/ WiredSession
    \/ receive_toggle_commands
    \/ receive_display_commands
    \/ start_keyboard_listener
    \/ idle_activity_any_time
    \/ idle_timeout_any_time

SpecLag == Init /\ [][NextLag]_vars

\* The monitor task with the sessions it starts: a Connected event is handled
\* whenever the monitor is not inside a start.
NextHotplug ==
    \/ start_usb_keyboard_monitor_task
    \/ usb_announce_attached
    \/ usb_restore_backlight
    \/ usb_restore_mic
    \/ usb_control_task_recv
    \/ usb_control_task_shutdown
    \/ usb_read_loop_error
    \/ usb_announce_detached

SpecHotplug == Init /\ [][NextHotplug]_vars

\* The idle engine with its clock, the keyboard listener and a dispatcher that
\* receives the suspend commands.
receive_suspend_commands ==
    \E line \in {"suspend_start", "suspend_end"} : (dispatch(line) /\ UNCHANGED pipe)

NextIdle ==
    \/ start_keyboard_listener
    \/ receive_suspend_commands
    \/ idle_state_task_activity
    \/ idle_state_task_timeout
    \/ tick

SpecIdle == InitIdle /\ [][NextIdle]_vars

\* The same where each branch of the task's select that stays ready is
\* eventually taken, and time passes.
SpecIdleFair ==
    /\ SpecIdle
    /\ WF_vars(idle_state_task_activity)
    /\ WF_vars(idle_state_task_timeout)
    /\ WF_vars(tick)

\* The thread generation of the wired keyboard: the hotplug monitor, the threads
\* of the sessions it starts, and the two consumers.
NextThreads ==
    \/ monitor_usb_keyboard_hotplug
    \/ wired_announce_attached
    \/ wired_restore
    \/ wired_control_thread
    \/ wired_read_key
    \/ wired_read_disconnected
    \/ wired_announce_detached
    \/ virtual_keyboard_consumer
    \/ suspend_resume_consumer_thread

SpecThreads == Init /\ [][NextThreads]_vars

\* The Bluetooth session with the idle engine, with the default key functions
\* or the backlight key rebound.
NextBt ==
    \/ BtSession
    \/ start_keyboard_listener
    \/ idle_activity_any_time
    \/ idle_timeout_any_time

SpecBt == InitKeys /\ [][NextBt]_vars

\* The Bluetooth session's start and end beside a wired session.
NextBtWired ==
    \/ start_bt_keyboard_task
    \/ bt_control_task_recv
    \/ bt_control_task_shutdown
    \/ bt_read_task_error
    \/ WiredSession

SpecBtWired == Init /\ [][NextBtWired]_vars

\* The dispatcher on its FIFO with the processes that write to it.
NextPipe ==
    \/ receive_commands_task
    \/ writer_open
    \/ writer_write
    \/ writer_close

SpecPipe == Init /\ [][NextPipe]_vars

\* A wired session whose read loop handles function keys, with an operator who
\* sends toggle commands.
NextToggle ==
    \/ WiredSession
    \/ usb_read_backlight_key
    \/ usb_control_task_toggle_set
    \/ receive_toggle_commands

SpecToggle == Init /\ [][NextToggle]_vars

\* The thread generation of the wired keyboard when a write to the keyboard
\* may fail.
NextWriteFail ==
    \/ monitor_usb_keyboard_hotplug
    \/ wired_announce_attached
    \/ wired_restore
    \/ wired_control_thread_failing
    \/ wired_read_key
    \/ wired_read_disconnected
    \/ wired_announce_detached
    \/ virtual_keyboard_consumer
    \/ suspend_resume_consumer_thread

SpecWriteFail == Init /\ [][NextWriteFail]_vars

\* A wired session of the task generation when a write to the keyboard may
\* fail, with an operator who sends toggle commands.
NextUsbWriteFail ==
    \/ usb_monitor_connected_after_end
    \/ usb_announce_attached
    \/ usb_restore_backlight
    \/ usb_restore_mic
    \/ usb_control_task_recv_failing
    \/ usb_control_task_shutdown
    \/ usb_read_loop_error
    \/ usb_announce_detached
    \/ receive_toggle_commands

SpecUsbWriteFail == Init /\ [][NextUsbWriteFail]_vars

\* The idle engine with its clock and a dispatcher that receives the suspend
\* commands, idle detection enabled: every pulse is the dispatcher's.
NextResume ==
    \/ receive_suspend_commands
    \/ idle_state_task_activity
    \/ idle_state_task_timeout
    \/ tick

SpecResume == Init /\ [][NextResume]_vars

\* The same where each branch of the task's select that stays ready is
\* eventually taken, and time passes.
SpecResumeFair ==
    /\ SpecResume
    /\ WF_vars(idle_state_task_activity)
    /\ WF_vars(idle_state_task_timeout)
    /\ WF_vars(tick)

\* A wired session with an operator who turns the display on and off.
NextDetach ==
    \/ WiredSession
    \/ receive_display_commands_noted

SpecDetach == Init /\ [][NextDetach]_vars

\* The store's lock with the callers that contend for it.
NextLock ==
    \/ lock_idle_engine
    \/ lock_dispatcher
    \/ lock_usb_session
    \/ lock_usb_control
    \/ \E c \in LockCallers : lock_step(c)

SpecLock == Init /\ [][NextLock]_vars

\* The same with the display task's receiver, which is given the events and
\* calls nothing back.
NextLockOrder ==
    \/ NextLock
    \/ lock_display

SpecLockOrder == Init /\ [][NextLockOrder]_vars

\* The store's lock where a caller that holds a guard goes on, and a caller inside
\* write() or read() gets the guard when it stays free.
SpecLockFair ==
    /\ SpecLock
    /\ \A c \in LockCallers :
           /\ WF_vars(lock_mutate(c) \/ lock_send(c) \/ lock_release(c))
           /\ WF_vars(lock_acquire(c))

\* ------------------------------------------------------------------ properties
\* The effective values of a store state under the shadow rule: Off / false
\* while idle or suspended, the stored values otherwise.
EffectiveBacklight(s, suspended) ==
    IF s.is_idle \/ suspended THEN "Off" ELSE s.backlight

EffectiveMicMuteLed(s, suspended) ==
    IF s.is_idle \/ suspended THEN FALSE ELSE s.mic_mute_led

\* The step leaves the stored backlight level and mic-mute value alone.
StoredUnchanged ==
    /\ state'.backlight = state.backlight
    /\ state'.mic_mute_led = state.mic_mute_led

\* p is one backlight event carrying b and one mic-mute event carrying m.
Carries(p, b, m) ==
    /\ Len(p) = 2
    /\ {p[1], p[2]} = {Backlight(b), MicMuteLed(m)}

\* C1: under every sequence of calls of the store's mutators, starting from
\* new(attached), the secondary display is disabled whenever the wired keyboard
\* is attached; in particular right after set_usb_keyboard_attached(true).
C1_DisplayOffWhileAttached ==
    /\ state.is_usb_attached => ~is_secondary_display_enabled(state)
    /\ (op.name = "set_usb_keyboard_attached" /\ op.attached) =>
           /\ state.is_usb_attached
           /\ ~is_secondary_display_enabled(state)

\* C1 witness: set_usb_keyboard_attached(true) was called while the display was
\* enabled, and the display is now disabled.
C1_AttachedWhileEnabled ==
    /\ op.name = "set_usb_keyboard_attached"
    /\ op.attached
    /\ att_enabled
    /\ state.is_usb_attached
    /\ ~is_secondary_display_enabled(state)

\* C2: whenever the store is idle or suspended the getters return Off / false,
\* and a wired session that starts then sends Off / false to the keyboard.
C2_GettersEffective ==
    (state.is_idle \/ is_suspended) =>
        /\ get_keyboard_backlight(state) = "Off"
        /\ get_mic_mute_led(state) = FALSE
        /\ (op.by = "usb_session" /\ op.name = "get_keyboard_backlight") =>
               kb_backlight[op.session] = send_backlight_state("Off")
        /\ (op.by = "usb_session" /\ op.name = "get_mic_mute_led") =>
               kb_mic[op.session] = send_mute_microphone_state(FALSE)

\* C3: idle_start leaves the stored backlight and mic-mute values and publishes
\* Off and false; an idle_end that follows it leaves them too and publishes
\* exactly the stored values.
C3_IdleShadowRestore ==
    [][/\ op'.name = "idle_start" =>
              /\ StoredUnchanged
              /\ state'.is_idle
              /\ pub' = <<MicMuteLed(FALSE), Backlight("Off")>>
       /\ (op.name = "idle_start" /\ op'.name = "idle_end") =>
              /\ StoredUnchanged
              /\ ~state'.is_idle
              /\ pub' = <<MicMuteLed(state.mic_mute_led), Backlight(state.backlight)>>
      ]_vars

\* C3 witness: idle_end has restored a stored High / true.
C3_RestoredHigh ==
    /\ op.name = "idle_end"
    /\ state.backlight = "High"
    /\ state.mic_mute_led = TRUE
    /\ ~state.is_idle
    /\ pub = <<MicMuteLed(TRUE), Backlight("High")>>

\* C4: no idle or suspend transition changes the stored backlight or mic-mute
\* value, and neither does the control task when, while the store is idle or
\* suspended, it handles the Backlight(Off) / MicMuteLed(false) events.
C4_StoredNotOverwritten ==
    [][/\ op'.name \in {"idle_start", "idle_end", "LaptopSuspend", "LaptopResume"} =>
              StoredUnchanged
       /\ (/\ op'.by = "usb_control"
           /\ state.is_idle \/ is_suspended
           /\ op'.event \in {Backlight("Off"), MicMuteLed(FALSE)}) =>
              StoredUnchanged
      ]_vars

\* C5: while the store is idle the backlight and mic-mute setters and togglers
\* store the new value and publish nothing; idle_end publishes what is stored.
C5_IdleSettersSilent ==
    [][/\ (state.is_idle /\ op'.name = "set_keyboard_backlight") =>
              /\ pub' = <<>>
              /\ state'.backlight = op'.level
       /\ (state.is_idle /\ op'.name = "toggle_keyboard_backlight") =>
              /\ pub' = <<>>
              /\ state'.backlight = next(state.backlight)
       /\ (state.is_idle /\ op'.name = "set_mic_mute_led") =>
              /\ pub' = <<>>
              /\ state'.mic_mute_led = op'.enabled
       /\ (state.is_idle /\ op'.name = "toggle_mic_mute_led") =>
              /\ pub' = <<>>
              /\ state'.mic_mute_led = ~state.mic_mute_led
       /\ (state.is_idle /\ op'.name \in {"set_keyboard_backlight", "set_mic_mute_led",
                                           "toggle_keyboard_backlight",
                                           "toggle_mic_mute_led"}) =>
              state'.is_idle
       /\ op'.name = "idle_end" =>
              pub' = <<MicMuteLed(state.mic_mute_led), Backlight(state.backlight)>>
      ]_vars

\* C5 witness: set_keyboard_backlight(Medium) was called while idle.
C5_SetWhileIdle ==
    /\ op.name = "set_keyboard_backlight"
    /\ op.level = "Medium"
    /\ state.is_idle
    /\ pub = <<>>
    /\ state.backlight = "Medium"

C7_ResyncEffective ==
    op.name \in {"idle_end", "suspend_end", "LaptopResume"} =>
        Carries(pub, EffectiveBacklight(state, is_suspended),
                     EffectiveMicMuteLed(state, is_suspended))

C9_NoEnableWhileAttached ==
    (state.is_usb_attached /\ att_enabled) =>
        /\ \A i \in 1..Len(pub) : pub[i] # SecondaryDisplay(TRUE)
        /\ ~(op.by \in {"display", "verify"}
             /\ op.write = control_secondary_display(TRUE))

\* C10: next is the 4-cycle Off, Low, Medium, High, Off: four applications
\* return the level, fewer do not, and next(Off) = Low.
C10_NextFourCycle ==
    /\ next("Off") = "Low"
    /\ next("Low") = "Medium"
    /\ next("Medium") = "High"
    /\ next("High") = "Off"
    /\ \A b \in KeyboardBacklightState :
           /\ next(b) \in KeyboardBacklightState
           /\ next(b) # b
           /\ next(next(b)) # b
           /\ next(next(next(b))) # b
           /\ next(next(next(next(b)))) = b
    /\ op.name = "toggle_keyboard_backlight" =>
           state.backlight = next(next(next(next(state.backlight))))

\* C10 witness: toggle_keyboard_backlight has stepped from High round to Off.
C10_ToggledToOff ==
    /\ op.name = "toggle_keyboard_backlight"
    /\ state.backlight = "Off"

\* The last events of the channel are p, and receiver s has them still to read.
Delivered(b, s, p) ==
    /\ Len(b.log) >= Len(p)
    /\ SubSeq(b.log, Len(b.log) - Len(p) + 1, Len(b.log)) = p
    /\ b.unread[s] >= Len(p)

\* C12: a subscriber that is behind never blocks a publisher: every command of
\* the dispatcher can be executed in every state, whatever the receivers have
\* left unread, and what a step publishes is delivered to every receiver; a
\* control task or display task that gets Lagged keeps running, stays subscribed
\* and has the retained and all later events still to receive.
C12_LaggedNeverBlocks ==
    /\ [](\A line \in Commands \ {"suspend_end"} : ENABLED dispatch(line))
    /\ [][/\ \A s \in bus'.rx : Delivered(bus', s, pub')
          /\ (op'.by = "usb_control" /\ op'.event.type = "Lagged") =>
                 /\ bus.unread[UsbRx(op'.session)] = BusCapacity
                 /\ usb_ctl'[op'.session] = "running"
                 /\ UsbRx(op'.session) \in bus'.rx
                 /\ ~bus'.lagged[UsbRx(op'.session)]
                 /\ bus'.unread[UsbRx(op'.session)] = BusCapacity
          /\ (op'.by = "display" /\ op'.event.type = "Lagged") =>
                 /\ disp_pc' = "running"
                 /\ DisplayRx \in bus'.rx
                 /\ ~bus'.lagged[DisplayRx]
                 /\ bus'.unread[DisplayRx] = BusCapacity
         ]_vars

\* C12 witness: a control task that got Lagged has then received an event.
C12_ReceivedAfterLagged ==
    /\ op.by = "usb_control"
    /\ op.event.type = "SecondaryDisplay"
    /\ usb_lagged[op.session]
    /\ usb_ctl[op.session] = "running"

\* C13: once a control task that got Lagged has no event left to receive, the
\* backlight and mic-mute payloads last written to its keyboard are those of the
\* store's effective values.
C13_RederivedAfterLagged ==
    \A i \in Sessions :
        (/\ usb_pc[i] = "running"
         /\ usb_ctl[i] = "running"
         /\ usb_lagged[i]
         /\ ~can_recv(bus, UsbRx(i))) =>
            /\ kb_backlight[i] =
                   send_backlight_state(EffectiveBacklight(state, is_suspended))
            /\ kb_mic[i] =
                   send_mute_microphone_state(EffectiveMicMuteLed(state, is_suspended))

\* A session that holds the interface handle: started and its read loop not ended.
Active(i) == usb_pc[i] # "absent"

\* C18: at most one wired session is active at any time, and no two sessions
\* have both written to the keyboard through handles they both still hold.
C18_SingleWiredSession ==
    /\ Cardinality({i \in Sessions : Active(i)}) <= 1
    /\ \A i, j \in Sessions :
           (i # j /\ Active(i) /\ Active(j)) =>
               (kb_backlight[i] = "none" \/ kb_backlight[j] = "none")

\* The last step was the idle engine's call of the named store method.
EngineCalled(o, name) == o.by = "idle_engine" /\ o.name = name

\* C14: the idle engine calls idle_start only when its is_idle is false and a
\* full idle_timeout has passed since the last pulse it received, and idle_end
\* only when its is_idle is true and it receives a pulse; is_idle starts false
\* and changes exactly at these calls, so the calls alternate beginning with
\* idle_start; a pulse received while is_idle is false calls nothing.
C14_EngineAlternates ==
    /\ ~engine_is_idle
    /\ [][/\ EngineCalled(op', "idle_start") =>
                 /\ ~engine_is_idle /\ engine_is_idle'
                 /\ elapsed >= from_secs(idle_timeout_seconds)
                 /\ pulses' = pulses
          /\ EngineCalled(op', "idle_end") =>
                 /\ engine_is_idle /\ ~engine_is_idle'
                 /\ pulses' = pulses - 1
          /\ engine_is_idle' # engine_is_idle =>
                 EngineCalled(op', "idle_start") \/ EngineCalled(op', "idle_end")
          /\ state'.is_idle # state.is_idle => op'.by = "idle_engine"
          /\ (pulses' < pulses /\ ~engine_is_idle) =>
                 /\ op' = [name |-> "-", by |-> "idle_engine"]
                 /\ state' = state
                 /\ pub' = <<>>
         ]_vars

\* C14 witness: the engine has called idle_end, so an idle_start came before it.
C14_IdleEndCalled ==
    /\ EngineCalled(op, "idle_end")
    /\ ~engine_is_idle
    /\ ~state.is_idle

\* C15: with idle_timeout T ticks, the engine's idle_start comes no earlier than
\* T ticks after the last pulse the engine received (or after its start).
C15_IdleStartAfterTimeout ==
    [][EngineCalled(op', "idle_start") =>
           /\ elapsed >= from_secs(idle_timeout_seconds)
           /\ slept >= from_secs(idle_timeout_seconds)
           /\ time_until_idle = from_secs(idle_timeout_seconds)
      ]_vars

\* C15 witness: idle_start has been called, a full timeout after the last pulse.
C15_IdleStartCalled ==
    /\ EngineCalled(op, "idle_start")
    /\ elapsed = IdleTimeout
    /\ state.is_idle

\* C16: a pulse waiting in the engine's channel while the store is idle leads to
\* the engine's idle_end, with no idle_start while it waits; an engine whose
\* is_idle is false and which has no pulse waiting eventually calls idle_start
\* unless a pulse arrives.
C16_EngineProgress ==
    /\ (state.is_idle /\ pulses > 0) ~> EngineCalled(op, "idle_end")
    /\ [][(state.is_idle /\ pulses > 0) => ~EngineCalled(op', "idle_start")]_vars
    /\ (start_idle_detection_task(idle_timeout_seconds) /\ ~engine_is_idle /\ pulses = 0)
           ~> (EngineCalled(op, "idle_start") \/ pulses > 0)

\* C16 witness: a pulse sent by the dispatcher's suspend_end waits while the
\* store is idle.
C16_PulseWhileIdle ==
    /\ state.is_idle
    /\ pulses > 0
    /\ op.name = "suspend_end"

Subscribed(r) ==
    IF r = ConsumerRx THEN TRUE
    ELSE \E i \in Sessions : r = WiredRx(i) /\ usb_ctl[i] = "running"

\* C11: every receiver of the EventBus receives the events in the order of
\* sending, and every event sent since the receiver was cloned has been received
\* by it or is still in the channel for it.
C11_EveryReceiverGetsEvery ==
    \A r \in Receivers :
        Subscribed(r) =>
            /\ \A j \in 1..(Len(taken[r]) - 1) : taken[r][j] < taken[r][j + 1]
            /\ \A k \in (sub_at[r] + 1)..sent :
                   \/ \E j \in 1..Len(taken[r]) : taken[r][j] = k
                   \/ k >= HeadId

\* C19: the step by which a read loop that has detected the disappearance of its
\* device returns leaves the synthetic keys released (or their release sent),
\* the session's control task stopped or signalled to stop, and the attached
\* flag false.
C19_DisappearanceSteps ==
    [][\A i \in Sessions :
           (usb_pc[i] = "announce_detached" /\ usb_pc'[i] = "absent") =>
               /\ \/ pressed_keys' = <<>>
                  \/ /\ key_chan' # <<>>
                     /\ key_chan'[Len(key_chan')] = "AllKeysReleased"
               /\ shutdown'[i] \/ usb_ctl'[i] = "none"
               /\ ~state'.is_usb_attached
      ]_vars

\* C20: a session's control task takes an event from the bus, and writes to the
\* keyboard, only while the session's read loop has not ended.
C20_SessionWorkStops ==
    [][(op'.by \in {"wired_control", "usb_control"} /\ op'.event.type # "shutdown") =>
           usb_pc[op'.session] # "absent"
      ]_vars

\* C21: a session's shutdown signal is fired only by that session's own read
\* loop, on its way out, and it is that session's alone: the step that fires it
\* fires no other session's signal and stops no control task, a signal once fired
\* stays fired until the slot is given to a new session with a new oneshot, and a
\* control task stops only on its own session's signal, leaving every other
\* session's control task as it was.
C21_ShutdownOwnSession ==
    [][\A i \in Sessions :
          /\ (~shutdown[i] /\ shutdown'[i]) =>
                 /\ op'.by = "usb_session"
                 /\ op'.session = i
                 /\ usb_pc[i] = "announce_detached"
                 /\ \A j \in Sessions \ {i} : shutdown'[j] = shutdown[j]
                 /\ usb_ctl' = usb_ctl
          /\ (shutdown[i] /\ ~shutdown'[i]) =>
                 /\ op'.name = "set_usb_keyboard_attached"
                 /\ op'.session = i
                 /\ usb_ctl[i] = "none"
          /\ (usb_ctl[i] = "running" /\ usb_ctl'[i] = "none") =>
                 /\ shutdown[i]
                 /\ op'.by = "usb_control"
                 /\ op'.session = i
                 /\ \A j \in Sessions \ {i} : usb_ctl'[j] = usb_ctl[j]
      ]_vars

\* C21 witness: session i's control task has just stopped on its signal while
\* the control task of another session, whose signal has not fired, is running.
C21_OtherStillRunning ==
    \E i, j \in Sessions :
        /\ i # j
        /\ op.by = "usb_control"
        /\ op.session = i
        /\ op.event.type = "shutdown"
        /\ shutdown[i]
        /\ usb_ctl[i] = "none"
        /\ usb_ctl[j] = "running"
        /\ ~shutdown[j]


\* C22: on both transports the neutral value and every unrecognized value
\* release all held synthetic keys and nothing else: the held set becomes empty,
\* the store is left as it was and no event is published, and the outcome of an
\* unrecognized value is the outcome of the neutral value, whatever the key
\* functions, the store and the held keys; a read step of the Bluetooth session
\* that handles such a value does exactly that.
C22_NeutralAndUnknownRelease ==
    /\ [](\A value \in {Neutral} \cup Unrecognized :
            /\ bt_on_abs_misc(value, config, state, pressed_keys) =
                   KeyOutcome(state, <<>>, <<>>, release_all_keys_events(pressed_keys))
            /\ usb_on_report(value, config, state, pressed_keys) =
                   KeyOutcome(state, <<>>, <<>>, release_all_keys_events(pressed_keys))
            /\ bt_on_abs_misc(value, config, state, pressed_keys) =
                   bt_on_abs_misc(Neutral, config, state, pressed_keys)
            /\ usb_on_report(value, config, state, pressed_keys) =
                   usb_on_report(Neutral, config, state, pressed_keys))
    /\ [][(op'.by = "bt_read" /\ op'.raw \in {Neutral} \cup Unrecognized) =>
              /\ pressed_keys' = <<>>
              /\ state' = state
              /\ pub' = <<>>
              /\ op'.key_events = release_all_keys_events(pressed_keys)
      ]_vars

\* C22 witness: the read task has handled an unrecognized value while keys were
\* held, and they have been released.
C22_UnknownReleasedHeld ==
    /\ op.by = "bt_read"
    /\ op.raw \in Unrecognized
    /\ op.key_events # <<>>
    /\ pressed_keys = <<>>


\* C23: with the default key functions, the store not idle and the backlight at
\* Low, the Bluetooth read task handles neutral, backlight key, neutral as
\* release-all, exactly one Backlight(Medium), release-all: a neutral value
\* releases the held keys, publishes nothing and leaves the store alone, the
\* backlight key publishes Backlight(Medium) and nothing else, stores Medium and
\* touches no key, so that the stored backlight is Medium after the last step.
C23_ScenarioA ==
    [][(op'.by = "bt_read" /\ config = DefaultConfig) =>
          /\ op'.raw = Neutral =>
                 /\ pressed_keys' = <<>>
                 /\ op'.key_events = release_all_keys_events(pressed_keys)
                 /\ pub' = <<>>
                 /\ state' = state
          /\ (op'.raw = 199 /\ ~state.is_idle /\ state.backlight = "Low") =>
                 /\ pub' = <<Backlight("Medium")>>
                 /\ state' = [state EXCEPT !.backlight = "Medium"]
                 /\ pressed_keys' = pressed_keys
                 /\ op'.key_events = <<>>
          /\ (bt'.raws = ScenarioA /\ ~state.is_idle /\ state.backlight = "Medium") =>
                 /\ state'.backlight = "Medium"
                 /\ pub' = <<>>
      ]_vars

\* C23 witness: the read task has handled neutral, backlight key, neutral in a
\* row with the default key functions, and the stored backlight is Medium.
C23_ScenarioADone ==
    /\ op.by = "bt_read"
    /\ config = DefaultConfig
    /\ bt.raws = ScenarioA
    /\ ~state.is_idle
    /\ state.backlight = "Medium"
    /\ pressed_keys = <<>>
    /\ Len(bus.log) > 0
    /\ bus.log[Len(bus.log)] = Backlight("Medium")


\* C24: release_all_keys is idempotent: called again with no press in between it
\* writes no event and leaves the held set empty, whatever keys were held before
\* the first call; and every release event a step writes is for a key that was
\* held when the step began, so a release-all with nothing held writes nothing.
C24_ReleaseAllIdempotent ==
    /\ [](LET once == release_all_keys(pressed_keys)
          IN  /\ once = <<>>
              /\ release_all_keys(once) = <<>>
              /\ release_all_keys_events(once) = <<>>)
    /\ [][("key_events" \in DOMAIN op') =>
              /\ \A k \in 1..Len(op'.key_events) :
                     op'.key_events[k].value = "Release" =>
                         \E h \in 1..Len(pressed_keys) :
                             pressed_keys[h] = op'.key_events[k].code
              /\ (/\ pressed_keys = <<>>
                  /\ \/ op'.by = "bt_session"
                     \/ op'.raw \in {Neutral} \cup Unrecognized) =>
                     (op'.key_events = <<>> /\ pressed_keys' = <<>>)
      ]_vars

\* C24 witness: release_all_keys has been called with nothing held, after the
\* read task handled a neutral value, and has written nothing.
C24_ReleasedNothing ==
    /\ op.by = "bt_read"
    /\ op.raw = Neutral
    /\ op.key_events = <<>>
    /\ pressed_keys = <<>>
    /\ bt.raws = <<Neutral>>


\* The store call the vocabulary gives a command line.
CommandCall(line, s) ==
    CASE line = "suspend_start" -> suspend_start(s)
      [] line = "suspend_end" -> suspend_end(s)
      [] line = "mic_mute_led_toggle" -> toggle_mic_mute_led(s)
      [] line = "mic_mute_led_on" -> set_mic_mute_led(s, TRUE)
      [] line = "mic_mute_led_off" -> set_mic_mute_led(s, FALSE)
      [] line = "backlight_toggle" -> toggle_keyboard_backlight(s)
      [] line = "backlight_off" -> set_keyboard_backlight(s, "Off")
      [] line = "backlight_low" -> set_keyboard_backlight(s, "Low")
      [] line = "backlight_medium" -> set_keyboard_backlight(s, "Medium")
      [] line = "backlight_high" -> set_keyboard_backlight(s, "High")
      [] line = "secondary_display_toggle" -> toggle_secondary_display(s)
      [] line = "secondary_display_on" -> set_secondary_display(s, TRUE)
      [] line = "secondary_display_off" -> set_secondary_display(s, FALSE)

\* C25: every word of the vocabulary can be dispatched in every state, and the
\* dispatcher's step for it leaves the store, and publishes the events, that the
\* one store call the vocabulary gives the word leaves and publishes in the state
\* the step began in; the suspended flag follows the suspend words alone.
C25_CommandIsOneStoreCall ==
    /\ [](\A line \in Commands \ {"suspend_end"} : ENABLED dispatch(line))
    /\ [][(op'.by = "dispatcher" /\ op'.line \in Commands) =>
              /\ state' = CommandCall(op'.line, state).st
              /\ pub' = CommandCall(op'.line, state).ev
              /\ is_suspended' = CASE op'.line = "suspend_start" -> TRUE
                                    [] op'.line = "suspend_end" -> FALSE
                                    [] OTHER -> is_suspended
      ]_vars

\* C25 witness: the dispatcher has executed backlight_medium while the store
\* was idle, and Medium is stored.
C25_MediumWhileIdle ==
    /\ op.by = "dispatcher"
    /\ op.line = "backlight_medium"
    /\ state.is_idle
    /\ state.backlight = "Medium"

\* C26: a line that is no word of the vocabulary leaves the store and the
\* suspended flag as they were and publishes nothing, and the dispatcher goes on
\* reading: a recognized command that follows it in the channel can be
\* dispatched.
C26_UnknownLineIgnored ==
    /\ [][(op'.by = "dispatcher" /\ op'.line \notin Commands) =>
              /\ op'.name = "unknown_command"
              /\ state' = state
              /\ is_suspended' = is_suspended
              /\ pub' = <<>>
              /\ bus' = bus
              /\ pipe'.pc = "reading"
      ]_vars
    /\ []((/\ pipe.last = UnknownLine
           /\ pipe.pc = "reading"
           /\ pipe.lines # <<>>
           /\ Head(pipe.lines) \in Commands) =>
              ENABLED receive_next_command_line)

\* C26 witness: the dispatcher has executed backlight_toggle, the line it
\* received right after an unrecognized one.
C26_ExecutedAfterUnknown ==
    /\ op.by = "dispatcher"
    /\ op.line = "backlight_toggle"
    /\ pipe.before = UnknownLine
    /\ pipe.last = "backlight_toggle"
    /\ state.backlight = "Medium"

\* C27: the dispatcher never leaves its loop, and a command that is in the
\* channel is never left waiting on a dispatcher that is blocked until some
\* other writer opens the channel: whenever a line is buffered, the dispatcher
\* is reading, or on its way to read without waiting for a writer.
C27_CommandNotStranded ==
    /\ pipe.pc \in {"opening", "reading", "reopen", "recreate"}
    /\ ~(pipe.pc = "opening" /\ pipe.lines # <<>> /\ ~pipe.writer)


\* C28: with no receiver subscribed, every mutator can still be called and
\* returns: the call is enabled whatever it would publish, it applies its change
\* to the store, and the getter called afterwards returns the new value; the
\* events it sent reach nobody and are not kept.
C28_SendToNobody ==
    /\ [](bus.rx = {} =>
            /\ \A level \in KeyboardBacklightState :
                   ENABLED Call(set_keyboard_backlight(state, level),
                                [name |-> "set_keyboard_backlight", by |-> "client",
                                 level |-> level])
            /\ \A enabled \in BOOLEAN :
                   /\ ENABLED Call(set_mic_mute_led(state, enabled),
                                   [name |-> "set_mic_mute_led", by |-> "client",
                                    enabled |-> enabled])
                   /\ ENABLED Call(set_secondary_display(state, enabled),
                                   [name |-> "set_secondary_display", by |-> "client",
                                    enabled |-> enabled])
                   /\ ENABLED Call(set_usb_keyboard_attached(state, enabled),
                                   [name |-> "set_usb_keyboard_attached",
                                    by |-> "client", attached |-> enabled])
            /\ ENABLED Call(toggle_keyboard_backlight(state),
                            [name |-> "toggle_keyboard_backlight", by |-> "client"])
            /\ ENABLED Call(toggle_mic_mute_led(state),
                            [name |-> "toggle_mic_mute_led", by |-> "client"])
            /\ ENABLED Call(toggle_secondary_display(state),
                            [name |-> "toggle_secondary_display", by |-> "client"])
            /\ ENABLED Call(idle_start(state), [name |-> "idle_start", by |-> "client"])
            /\ ENABLED Call(idle_end(state), [name |-> "idle_end", by |-> "client"]))
    /\ [][(op'.by = "client" /\ bus.rx = {}) =>
              /\ bus'.log = <<>>
              /\ op'.name = "set_keyboard_backlight" =>
                     get_keyboard_backlight(state') = op'.level
              /\ op'.name = "toggle_keyboard_backlight" =>
                     get_keyboard_backlight(state') = next(get_keyboard_backlight(state))
              /\ op'.name = "set_mic_mute_led" =>
                     get_mic_mute_led(state') = op'.enabled
              /\ op'.name = "toggle_mic_mute_led" =>
                     get_mic_mute_led(state') = ~get_mic_mute_led(state)
              /\ op'.name = "set_secondary_display" =>
                     is_secondary_display_enabled(state') =
                         (~state.is_usb_attached /\ op'.enabled)
              /\ op'.name = "toggle_secondary_display" =>
                     is_secondary_display_enabled(state') =
                         (~state.is_usb_attached /\ ~is_secondary_display_enabled(state))
              /\ op'.name = "set_usb_keyboard_attached" =>
                     state'.is_usb_attached = op'.attached
              /\ op'.name = "idle_start" => is_idle(state')
              /\ op'.name = "idle_end" => ~is_idle(state')
      ]_vars

\* C28 witness: a setter has published an event while nobody was subscribed, and
\* the value it set is stored.
C28_PublishedToNobody ==
    /\ op.by = "client"
    /\ op.name = "set_keyboard_backlight"
    /\ pub = <<Backlight("High")>>
    /\ bus.rx = {}
    /\ bus.log = <<>>
    /\ get_keyboard_backlight(state) = "High"


\* C29: the start and the end of the Bluetooth session, and every step of its
\* control task, leave the store as it was, the attached flag and the display
\* flag with it, and publish nothing; the attached flag changes only in a wired
\* session's attach or detach step.
C29_BtLeavesAttachedAlone ==
    [][/\ op'.by \in {"bt_session", "bt_control"} =>
              /\ state' = state
              /\ pub' = <<>>
              /\ bus'.log = bus.log \/ Len(bus'.log) < Len(bus.log)
       /\ state'.is_usb_attached # state.is_usb_attached =>
              /\ op'.by = "usb_session"
              /\ op'.name = "set_usb_keyboard_attached"
              /\ state'.is_usb_attached = op'.attached
      ]_vars

\* C29 witness: the Bluetooth session has ended while the wired keyboard is
\* attached and the display disabled.
C29_BtEndedWhileAttached ==
    /\ op.by = "bt_session"
    /\ op.name = "end"
    /\ bt.pc = "absent"
    /\ state.is_usb_attached
    /\ ~is_secondary_display_enabled(state)
    /\ \E i \in Sessions : usb_pc[i] = "running"


\* C30: no toggle is lost: when a control task applies the backlight toggle it
\* received, the stored backlight advances by one step of next() from the level
\* stored at that moment, whatever other toggles were applied since the task
\* received the event.
C30_NoToggleLost ==
    [][(/\ op'.by = "usb_control"
        /\ op'.name = "set_keyboard_backlight"
        /\ op'.event = BacklightToggle) =>
           state'.backlight = next(state.backlight)
      ]_vars


\* C31: a failed write of the backlight or the mic-mute payload is only logged:
\* the control thread that made it is still running after it, the session's
\* read loop is where it was, the store holds what the mutator of that step
\* left, and the keyboard holds the payload it held (no retry).
C31_FailedWriteOnlyLogged ==
    [][(/\ op'.by = "wired_control"
        /\ op'.result = "Err") =>
           /\ usb_ctl'[op'.session] = "running"
           /\ usb_pc' = usb_pc
           /\ kb_backlight' = kb_backlight
           /\ kb_mic' = kb_mic
           /\ op'.name = "set_keyboard_backlight" =>
                  \E level \in KeyboardBacklightState :
                      /\ send_backlight_state(level) = op'.write
                      /\ state' = set_keyboard_backlight(state, level).st
           /\ op'.name = "set_mic_mute_led" =>
                  \E enabled \in BOOLEAN :
                      /\ send_mute_microphone_state(enabled) = op'.write
                      /\ state' = set_mic_mute_led(state, enabled).st
      ]_vars

\* The same of the task generation's control task (keyboard_usb.rs).
UsbFailedWriteOnlyLogged ==
    [][(/\ op'.by = "usb_control"
        /\ op'.name \in {"set_keyboard_backlight", "set_mic_mute_led"}
        /\ op'.event.type \in {"Backlight", "MicMuteLed"}
        /\ op'.result = "Err") =>
           /\ usb_ctl'[op'.session] = "running"
           /\ usb_pc' = usb_pc
           /\ kb_backlight' = kb_backlight
           /\ kb_mic' = kb_mic
           /\ op'.name = "set_keyboard_backlight" =>
                  state' = set_keyboard_backlight(state, op'.level).st
           /\ op'.name = "set_mic_mute_led" =>
                  state' = set_mic_mute_led(state, op'.enabled).st
      ]_vars

\* A control task of keyboard_usb.rs whose write failed.
UsbWriteFailed ==
    /\ op.by = "usb_control"
    /\ op.name = "set_keyboard_backlight"
    /\ op.event.type = "Backlight"
    /\ op.result = "Err"

\* C32: no interleaving of store calls deadlocks: whenever a caller is inside a
\* store method some caller inside one can take its next step, and every
\* caller that has started a method gets the guard, completes and returns,
\* also the control task that calls back on an event it received.
C32_NoDeadlock ==
    /\ []((\E c \in LockCallers : lock.pc[c] # "idle") =>
              \E c \in LockCallers : ENABLED lock_step(c))
    /\ \A c \in LockCallers : (lock.pc[c] # "idle") ~> (lock.pc[c] = "idle")

\* The control task is inside write() for an event it received while another
\* caller holds the guard and has still an event to send.
C32_CallbackWhileHeld ==
    /\ lock.pc["usb_control"] = "waiting"
    /\ \E h \in LockCallers : lock.pc[h] = "sending" /\ lock.pending[h] # <<>>

\* A tag is earlier than another: an earlier mutation, or the same mutation
\* and an earlier send.
Earlier(a, b) ==
    a[1] < b[1] \/ (a[1] = b[1] /\ a[2] < b[2])

\* C33: each receiver is given the events in the order in which the mutations
\* that sent them were applied to the store, and the events of one mutation in
\* the order of its sends: of two events a receiver was given one after the
\* other, the first is of an earlier mutation or an earlier send of the same.
C33_EventsInMutationOrder ==
    \A s \in LockSubscribers :
        lock.got[s][1] # NoTag => Earlier(lock.got[s][1], lock.got[s][2])

\* The display task was given the two events of an idle_start or idle_end one
\* after the other, after another mutator had been applied.
C33_IdleEventsTogether ==
    /\ lock.got[DisplayRx][1][1] > 1
    /\ lock.got[DisplayRx][1][2] = 1
    /\ lock.got[DisplayRx][2] = <<lock.got[DisplayRx][1][1], 2>>

\* C34: the display task never writes "on" to the panel-status file while a
\* wired keyboard is attached: after each step of its event task or of its
\* reconciler that writes "on", is_usb_attached is false.
C34_NoOnWhileAttached ==
    [][(/\ op'.by \in {"display", "verify"}
        /\ op'.write = control_secondary_display(TRUE)) =>
           ~state'.is_usb_attached
      ]_vars

\* The panel state inferred from the panel-status file differs from the store's
\* is_secondary_display_enabled.
PanelDiffers ==
    is_secondary_display_enabled_actual(panel_status) #
        is_secondary_display_enabled(state)

C36_CaughtUpEqualsEffective ==
    \A i \in Sessions :
        (/\ usb_pc[i] = "running"
         /\ usb_ctl[i] = "running"
         /\ ~usb_lagged[i]
         /\ ctl_new_state[i].kind = "none"
         /\ ~can_recv(bus, UsbRx(i))) =>
            /\ kb_backlight[i] =
                   send_backlight_state(EffectiveBacklight(state, is_suspended))
            /\ kb_mic[i] =
                   send_mute_microphone_state(EffectiveMicMuteLed(state, is_suspended))

\* C37: a wired detach turns the secondary display on: the step that calls
\* set_usb_keyboard_attached(false) leaves is_secondary_display_enabled true and
\* publishes SecondaryDisplay(true), whatever display command came last.
C37_DetachTurnsDisplayOn ==
    [][(/\ op'.name = "set_usb_keyboard_attached"
        /\ ~op'.attached) =>
           /\ is_secondary_display_enabled(state')
           /\ ~state'.is_usb_attached
           /\ pub' = <<SecondaryDisplay(TRUE)>>
      ]_vars

\* The keyboard was detached when the operator's last display command, sent
\* during the attachment, was secondary_display_off.
C37_DetachedAfterOff ==
    /\ op.name = "set_usb_keyboard_attached"
    /\ ~op.attached
    /\ pipe.last = "secondary_display_off"
    /\ is_secondary_display_enabled(state)

\* C38: with idle detection enabled, suspend_end leaves a pulse for the idle
\* engine; a suspend_end received while the store is idle is followed by the
\* engine's idle_end; that idle_end republishes the stored mic-mute and
\* backlight; the step that takes a pulse restarts the timeout, and idle_start
\* comes only when a full idle_timeout has passed since.
C38_SuspendEndEndsIdle ==
    /\ [][op'.name = "suspend_end" => pulses' = pulses + 1]_vars
    /\ (op.name = "suspend_end" /\ state.is_idle) ~>
           (EngineCalled(op, "idle_end") /\ ~state.is_idle)
    /\ [][EngineCalled(op', "idle_end") =>
              /\ state.is_idle
              /\ pub' = <<MicMuteLed(state.mic_mute_led), Backlight(state.backlight)>>
              /\ state' = [state EXCEPT !.is_idle = FALSE]
         ]_vars
    /\ [][pulses' < pulses =>
              /\ op'.by = "idle_engine"
              /\ elapsed' = 0
              /\ time_until_idle' = from_secs(idle_timeout_seconds)
         ]_vars
    /\ [][EngineCalled(op', "idle_start") =>
              elapsed >= from_secs(idle_timeout_seconds)]_vars

\* The engine has ended the idleness on the dispatcher's pulse: the stored
\* values are published and a full timeout is ahead.
C38_ResumedOutOfIdle ==
    /\ EngineCalled(op, "idle_end")
    /\ ~state.is_idle
    /\ ~is_suspended
    /\ pub = <<MicMuteLed(state.mic_mute_led), Backlight(state.backlight)>>
    /\ time_until_idle = IdleTimeout

\* C39: whenever the idle engine waits in its select its local is_idle equals
\* the store's is_idle, and the store's flag changes only in a step in which
\* the idle engine calls idle_start or idle_end.
C39_IdleFlagsAgree ==
    /\ [](engine_is_idle = is_idle(state))
    /\ [][is_idle(state') # is_idle(state) =>
              \/ EngineCalled(op', "idle_start") /\ is_idle(state')
              \/ EngineCalled(op', "idle_end") /\ ~is_idle(state')
         ]_vars

\* A wired session's control task has called the store while the store and the
\* engine are idle and the laptop is suspended.
C39_OthersCallWhileIdle ==
    /\ op.by = "usb_control"
    /\ op.name \in {"set_keyboard_backlight", "set_mic_mute_led"}
    /\ is_idle(state)
    /\ engine_is_idle
    /\ is_suspended

====
